---------------------------- MODULE Spec2Model ----------------------------
(***************************************************************************)
(* A model of the product-scraper retrieval core.                          *)
(*                                                                         *)
(* Part 1: fetch_all_products (src/src/aldi/product_fetcher.py): the       *)
(* initial total-count request, the first pass over all pages, and the     *)
(* second pass that retries the failed pages through a fresh session.      *)
(*                                                                         *)
(* One step of the model is one GET request together with the handling of  *)
(* its response (or of the exception it raised), up to the next request.   *)
(* The upstream server is the environment: it chooses the response of      *)
(* every request.  History variables (requests, sleeps, log) record what   *)
(* the function did, in order.                                             *)
(***************************************************************************)
EXTENDS Integers, Sequences, FiniteSets, TLC

(***************************************************************************)
(* Program constants (src/src/aldi/config.py, product_fetcher.py).         *)
(***************************************************************************)
DEFAULT_LIMIT == 60
MAX_PRODUCTS == 1000
max_retries == 3
BLOCKED_BACKOFF == 60
ERROR_BACKOFF == 5

(***************************************************************************)
(* Bounds of the model.                                                    *)
(***************************************************************************)
\* entries the server puts in the 'data' list of one page
EntriesPerPage == 2
\* failing responses the server gives in one run under Spec
MaxFailures == 4
\* failing responses the server gives in one run under SpecPaging
MaxPagingFailures == 1

\* totalCount values the server reports under Spec (at most 3 pages)
Totals == {0, 1, 59, 60, 61, 130}
\* totalCount values the server reports under SpecPaging (up to the cap)
PagingTotals == {0, 1, 60, 61, 130, 959, 961, 1000, 1021, 5000}

VARIABLES
    pc,               \* "start" | "first" | "second" | "done" (returned) | "raised"
    session,          \* the session of the first pass: -1 None, 0 the caller's, n >= 1 created
    retry_session,    \* the session of the second pass: -1 before it is constructed
    sessions_created, \* number of create_session() calls so far
    server_total,     \* environment: the totalCount the server reports
    budget,           \* environment: failing responses the server may still give
    total_count,      \* pagination['totalCount']
    num_pages,        \* number of pages of the first pass
    page,             \* loop variable of the first pass (for page in range(num_pages))
    offset,           \* params['offset']
    products,         \* the list that becomes the returned DataFrame
    failed_pages,     \* pages to retry, in the order they failed
    retry_index,      \* position of the second pass in failed_pages (1-based)
    retry_count,      \* attempts of the current page that failed so far
    requests,         \* history: every GET issued, with the class of its outcome
    sleeps,           \* history: every time.sleep(wait_time), with its page
    log               \* history: pages reported as given up (logging.warning/error)

\* fetch_products_by_category (Part 2)
VARIABLES
    c_pc,             \* "idle" | "start" | "pages" | "done" (returned) | "raised"
    max_products,     \* the max_products argument
    c_server_total,   \* environment: products the server holds in the category
    c_total_count,    \* pagination.get('totalCount', 0)
    c_num_pages,      \* number of pages of the page loop
    c_page,           \* loop variable (for page in range(num_pages))
    c_products        \* the list that becomes the returned DataFrame

\* fetch_product_details (Part 3)
VARIABLES
    d_pc,             \* "idle" | "run" | "done" (returned) | "raised"
    d_sku,            \* the sku argument
    d_attempt,        \* loop variable (for attempt in range(max_retries))
    d_result,         \* the returned record
    category_list     \* product_data.get('categories', []) of the decoded record

\* the category discovery of main (Part 4)
VARIABLES
    m_pc,                  \* "idle" | "hydrate" | "seed" | "loop" | "batch" | "details" |
                           \* "step4" (the loop was left) | "rehydrate" | "combine" | "done" | "raised"
    world,                 \* environment: "free" | "chain", the answers the server gives
    all_products,          \* skus of all_products_df
    detailed_info,         \* records returned for the initial products
    discovered_categories,
    fetched_categories,
    categories_to_fetch,
    new_categories,
    current_batch,         \* keys of current_batch the for loop has not reached
    category_products_df,  \* skus of the frame the last category fetch returned
    fetched_skus,
    all_category_products, \* the new_products frames, each a sequence of skus
    pending,               \* skus of new_products the detail loop has not reached
    iteration,
    harvest_log,           \* history: len(new_categories) at the end of each iteration
    all_known,             \* history: every detail fetch of the loop returned only
                           \* keys already in discovered_categories
    chain_ok,              \* history: every detail fetch returned exactly one
                           \* brand-new key, every category fetch a new product
    blank_offered,         \* history: a record of the loop held an empty or
                           \* whitespace-only key
    category_detailed_info, \* records returned for the category products (Step 4)
    full_df,               \* skus of the rows of full_df
    detail_calls,          \* history: the sku of every fetch_product_details call
    category_calls         \* history: the key of every fetch_products_by_category call

\* the Walmart fetch_product_details and parse_product_page_html (Part 5)
VARIABLES
    w_pc,             \* "idle" | "fetch" | "next_data" | "title" | "regex" | "json_ld" |
                      \* "done" (returned) | "raised"
    item_id,          \* the item_id argument
    product_data,     \* the dict parse_product_page_html fills
    w_result,         \* the dict fetch_product_details returns
    name_sources,     \* history: the parts of the document that held a name
    ld_index,         \* JSON-LD blocks the for loop has gone through
    image_matches     \* what the three image patterns found, in order

\* the Walmart fetch_products_by_search and parse_search_page_html (Part 6)
VARIABLES
    s_pc,             \* "idle" | "loop" | "done" (returned) | "raised"
    s_max_products,   \* the max_products argument
    s_page,           \* page
    s_products,       \* products
    page_products     \* what parse_search_page_html returned for the last page

fetchAllVars == <<pc, session, retry_session, sessions_created, server_total, budget,
                  total_count, num_pages, page, offset, products, failed_pages,
                  retry_index, retry_count, log>>

\* requests and sleeps record the GETs and the time.sleep calls of every part
historyVars == <<requests, sleeps>>

categoryVars == <<c_pc, max_products, c_server_total, c_total_count, c_num_pages,
                  c_page, c_products>>

detailVars == <<d_pc, d_sku, d_attempt, d_result, category_list>>

discoveryVars == <<m_pc, world, all_products, detailed_info, discovered_categories,
                   fetched_categories, categories_to_fetch, new_categories,
                   current_batch, category_products_df, fetched_skus,
                   all_category_products, pending, iteration, harvest_log,
                   all_known, chain_ok, blank_offered, category_detailed_info,
                   full_df, detail_calls, category_calls>>

\* what a step of fetch_all_products leaves alone
walmartVars == <<w_pc, item_id, product_data, w_result, name_sources, ld_index,
                 image_matches>>

searchVars == <<s_pc, s_max_products, s_page, s_products, page_products>>

outsideFetchAll == <<categoryVars, detailVars, discoveryVars, walmartVars, searchVars>>

vars == <<fetchAllVars, historyVars, categoryVars, detailVars, discoveryVars,
          walmartVars, searchVars>>

\* fetch_products_by_category is not running
CategoryIdle ==
    /\ c_pc = "idle"
    /\ max_products = 0
    /\ c_server_total = 0
    /\ c_total_count = 0
    /\ c_num_pages = 0
    /\ c_page = 0
    /\ c_products = <<>>

\* the record fetch_product_details returns when it gives up (lines 349-358)
empty_result(sku) ==
    [sku |-> sku, description |-> "", category_keys |-> <<>>, image_url |-> "None"]

\* fetch_product_details is not running
DetailIdle ==
    /\ d_pc = "idle"
    /\ d_sku = 0
    /\ d_attempt = 0
    /\ d_result = empty_result(0)
    /\ category_list = <<>>

\* main is not running
DiscoveryIdle ==
    /\ m_pc = "idle"
    /\ world = "free"
    /\ all_products = <<>>
    /\ detailed_info = <<>>
    /\ discovered_categories = {}
    /\ fetched_categories = {}
    /\ categories_to_fetch = {}
    /\ new_categories = {}
    /\ current_batch = {}
    /\ category_products_df = <<>>
    /\ fetched_skus = {}
    /\ all_category_products = <<>>
    /\ pending = <<>>
    /\ iteration = 0
    /\ harvest_log = <<>>
    /\ all_known = TRUE
    /\ chain_ok = TRUE
    /\ blank_offered = FALSE
    /\ category_detailed_info = <<>>
    /\ full_df = <<>>
    /\ detail_calls = <<>>
    /\ category_calls = <<>>

\* JSON values: a type tag and, for numbers and strings, the text of the value
None == [t |-> "null", v |-> ""]

Num(text) == [t |-> "num", v |-> text]

Str(text) == [t |-> "str", v |-> text]

\* a key that is not there
Absent == [t |-> "absent", v |-> ""]

\* the dict {}
EmptyDict == [key \in {} |-> None]

\* product_data as parse_product_page_html creates it (lines 93-118); of its
\* fields the model keeps item_id, name, price, rating, review_count,
\* description and image_urls
NewProductData(id) ==
    [item_id |-> id, name |-> None, price |-> None, rating |-> None,
     review_count |-> None, description |-> None, image_urls |-> <<>>]

\* the Walmart fetcher is not running
WalmartIdle ==
    /\ w_pc = "idle"
    /\ item_id = 0
    /\ product_data = NewProductData(0)
    /\ w_result = EmptyDict
    /\ name_sources = {}
    /\ ld_index = 0
    /\ image_matches = <<>>

\* the Walmart search is not running
SearchIdle ==
    /\ s_pc = "idle"
    /\ s_max_products = 0
    /\ s_page = 1
    /\ s_products = <<>>
    /\ page_products = <<>>

OutsideFetchAllIdle ==
    CategoryIdle /\ DetailIdle /\ DiscoveryIdle /\ WalmartIdle /\ SearchIdle

(***************************************************************************)
(* Python exception classes that matter to the handlers.                   *)
(***************************************************************************)
\* response.json() raises requests.exceptions.JSONDecodeError (a RequestException
\* and a ValueError) with requests >= 2.27, and a plain ValueError before: the
\* repository pins no version, the model allows both
RequestExceptions == {"ConnectionError", "HTTPError", "RequestsJSONDecodeError"}
ValueErrors == {"JSONDecodeError", "RequestsJSONDecodeError"}
OtherExceptions == {"KeyError", "AttributeError"}

IsInstance(exc, class) ==
    CASE class = "RequestException" -> exc \in RequestExceptions
      [] class = "ValueError" -> exc \in ValueErrors
      [] class = "KeyError" -> exc = "KeyError"
      [] class = "Exception" ->
            exc \in RequestExceptions \cup ValueErrors \cup OtherExceptions
      [] OTHER -> FALSE

(***************************************************************************)
(* Responses of the upstream API.  A response is either a transport        *)
(* failure (session.get raises), or a status with a body.  The body is     *)
(* "garbage" (response.json() raises), or a JSON object with or without    *)
(* the 'data' list.  An entry of 'data' is a product record; an entry      *)
(* that lacks one of the keys extract_product_data subscripts is           *)
(* incomplete.                                                             *)
(***************************************************************************)
\* the sku of entry i (1-based) of page p: skus are distinct across pages
SkuOf(p, i) == p * DEFAULT_LIMIT + (i - 1)

\* the 'data' list of page p; bad = 0: every entry complete, else entry bad is incomplete
PageData(p, bad) ==
    [i \in 1..EntriesPerPage |-> [sku |-> SkuOf(p, i), complete |-> (i # bad)]]

TransportFailure == [transport |-> TRUE, status |-> 0, json |-> FALSE,
                     has_data |-> FALSE, data |-> <<>>]
StatusResponse(s) == [transport |-> FALSE, status |-> s, json |-> FALSE,
                      has_data |-> FALSE, data |-> <<>>]
GarbageBody == [transport |-> FALSE, status |-> 200, json |-> FALSE,
                has_data |-> FALSE, data |-> <<>>]
NoDataBody == [transport |-> FALSE, status |-> 200, json |-> TRUE,
               has_data |-> FALSE, data |-> <<>>]
DataBody(p, bad) == [transport |-> FALSE, status |-> 200, json |-> TRUE,
                     has_data |-> TRUE, data |-> PageData(p, bad)]

GoodResponse(p) == DataBody(p, 0)
FailingResponses(p) ==
    {TransportFailure, StatusResponse(403), StatusResponse(500), GarbageBody, NoDataBody}
        \cup {DataBody(p, bad) : bad \in 1..EntriesPerPage}
PageResponses(p) == {GoodResponse(p)} \cup FailingResponses(p)

(***************************************************************************)
(* extract_product_data: subscripts product['sku'] (and three more keys),  *)
(* so it raises KeyError on an incomplete entry.                           *)
(***************************************************************************)
ExtractRaises(product) == ~product.complete
extract_product_data(product) == [sku |-> product.sku]

\* index of the first entry the extractor raises on, Len + 1 when there is none
FirstRaising(data) ==
    IF \E i \in 1..Len(data) : ExtractRaises(data[i])
    THEN CHOOSE i \in 1..Len(data) :
            /\ ExtractRaises(data[i])
            /\ \A j \in 1..(i - 1) : ~ExtractRaises(data[j])
    ELSE Len(data) + 1

\* for product in page_data['data']: products.append(extract_product_data(product))
\* the entries before the first raising one are appended before the exception
AppendPage(prods, data) ==
    [products |-> prods \o [i \in 1..(FirstRaising(data) - 1) |->
                                extract_product_data(data[i])],
     exc |-> IF FirstRaising(data) <= Len(data) THEN "KeyError" ELSE "none"]

(***************************************************************************)
(* The body of one page attempt, up to the append loop: session.get, the   *)
(* 403 check, raise_for_status, response.json(), the 'data' check and the  *)
(* append loop.  The first pass (lines 88-113) and the second pass (lines  *)
(* 142-187) run the same sequence of checks.  result is "blocked", "json", *)
(* "nodata", "ok", or "exc" with the class of the exception raised.        *)
(***************************************************************************)
Attempt(resp, prods) ==
    IF resp.transport
    THEN [result |-> "exc", exc |-> "ConnectionError", products |-> prods]
    ELSE IF resp.status = 403
    THEN [result |-> "blocked", exc |-> "none", products |-> prods]
    ELSE IF resp.status >= 400
    THEN [result |-> "exc", exc |-> "HTTPError", products |-> prods]
    ELSE IF ~resp.json
    THEN [result |-> "json", exc |-> "none", products |-> prods]
    ELSE IF ~resp.has_data
    THEN [result |-> "nodata", exc |-> "none", products |-> prods]
    ELSE LET a == AppendPage(prods, resp.data)
         IN  [result |-> IF a.exc = "none" THEN "ok" ELSE "exc",
              exc |-> a.exc, products |-> a.products]

\* how the history records the outcome of a request
OutcomeClass(r) ==
    CASE r.result = "ok" -> "ok"
      [] r.result = "blocked" -> "blocked"
      [] r.result = "exc" /\ r.exc = "KeyError" -> "entry"
      [] OTHER -> "error"

Request(pass, off, sess, outcome) ==
    [pass |-> pass, offset |-> off, session |-> sess, outcome |-> outcome]

(***************************************************************************)
(* create_session(): a new session, distinct from every earlier one.       *)
(***************************************************************************)
create_session(created) == created + 1

(***************************************************************************)
(* The initial request (lines 53-76).  It runs outside every try block.    *)
(***************************************************************************)
InitialResponses ==
    {[transport |-> TRUE, status |-> 0, json |-> FALSE, has_total |-> FALSE],
     [transport |-> FALSE, status |-> 403, json |-> FALSE, has_total |-> FALSE],
     [transport |-> FALSE, status |-> 500, json |-> FALSE, has_total |-> FALSE],
     [transport |-> FALSE, status |-> 200, json |-> FALSE, has_total |-> FALSE],
     [transport |-> FALSE, status |-> 200, json |-> TRUE, has_total |-> FALSE],
     [transport |-> FALSE, status |-> 200, json |-> TRUE, has_total |-> TRUE]}

\* the exception lines 64-69 raise on resp, "none" when they raise nothing
InitialException(resp) ==
    IF resp.transport THEN "ConnectionError"
    ELSE IF resp.status >= 400 THEN "HTTPError"
    ELSE IF ~resp.json THEN "JSONDecodeError"
    ELSE IF ~resp.has_total THEN "KeyError"
    ELSE "none"

\* variant: the initial request wrapped in `except RequestException`, as in
\* fetch_products_by_category
InitialCatchesRequestErrors(exc) == IsInstance(exc, "RequestException")

\* lines 64-69 sit in no try block: every exception propagates to the caller
InitialCatches(exc) == FALSE

\* variant: the cap left out
MaxOffsetUncapped(total) == total

\* max_offset = min(MAX_PRODUCTS, total_count)
MaxOffset(total) == IF MAX_PRODUCTS < total THEN MAX_PRODUCTS ELSE total

\* num_pages = (max_offset + DEFAULT_LIMIT - 1) // DEFAULT_LIMIT
NumPages(total) == (MaxOffset(total) + DEFAULT_LIMIT - 1) \div DEFAULT_LIMIT

\* params['offset'] = page * DEFAULT_LIMIT
PageOffset(p) == p * DEFAULT_LIMIT

Start ==
    /\ pc = "start"
    /\ \E resp \in InitialResponses :
         LET exc == InitialException(resp)
             made == (session = -1)
             sess == IF made THEN create_session(sessions_created) ELSE session
             fails == exc # "none" /\ ~InitialCatches(exc)
         IN  /\ session' = sess
             /\ sessions_created' = IF made THEN sessions_created + 1
                                    ELSE sessions_created
             /\ offset' = 0
             /\ requests' = Append(requests,
                     Request(0, 0, sess, IF exc = "none" THEN "ok" ELSE "error"))
             /\ IF fails
                THEN /\ pc' = "raised"
                     /\ UNCHANGED <<total_count, num_pages>>
                ELSE /\ pc' = "first"
                     /\ total_count' = IF exc = "none" THEN server_total ELSE 0
                     /\ num_pages' = IF exc = "none" THEN NumPages(server_total) ELSE 0
    /\ UNCHANGED <<retry_session, server_total, budget, page, products,
                   failed_pages, retry_index, retry_count, sleeps, log>>
    /\ UNCHANGED outsideFetchAll

(***************************************************************************)
(* First pass (lines 84-125): one iteration of the for loop.               *)
(***************************************************************************)
\* except requests.exceptions.RequestException (line 115), except Exception (line 120)
FirstPassCatches(exc) ==
    IsInstance(exc, "RequestException") \/ IsInstance(exc, "Exception")

\* every failure branch of the first pass: failed_pages.append(page); continue
FirstPassFailed(failed, p) == Append(failed, p)

\* the for loop moves to the next page after a page that succeeded
NextPage(p) == p + 1

\* variant: break instead of continue, a failure ends the pass
AbortAfterFailure(p) == num_pages

\* continue (lines 94, 104, 110, 119, 125): a failure goes on with the next page
ContinueAfterFailure(p) == p + 1

FirstPassPage ==
    /\ pc = "first"
    /\ page < num_pages
    /\ \E resp \in PageResponses(page) :
         LET r == Attempt(resp, products)
             caught == r.result = "exc" /\ FirstPassCatches(r.exc)
         IN  /\ (resp # GoodResponse(page)) => budget > 0
             /\ budget' = IF resp # GoodResponse(page) THEN budget - 1 ELSE budget
             /\ offset' = PageOffset(page)
             /\ requests' = Append(requests,
                     Request(1, PageOffset(page), session, OutcomeClass(r)))
             /\ products' = r.products
             /\ IF r.result = "exc" /\ ~caught
                THEN /\ pc' = "raised"
                     /\ UNCHANGED <<page, failed_pages>>
                ELSE /\ pc' = "first"
                     /\ page' = IF r.result = "ok" THEN NextPage(page)
                                ELSE ContinueAfterFailure(page)
                     /\ failed_pages' = IF r.result = "ok" THEN failed_pages
                                        ELSE FirstPassFailed(failed_pages, page)
    /\ UNCHANGED <<session, retry_session, sessions_created, server_total,
                   total_count, num_pages, retry_index, retry_count, sleeps, log>>
    /\ UNCHANGED outsideFetchAll

(***************************************************************************)
(* Between the passes (lines 128-131): a fresh session for the retries.    *)
(***************************************************************************)
\* if failed_pages:
NeedsSecondPass(failed) == failed # <<>>

BeginSecondPass ==
    /\ pc = "first"
    /\ page >= num_pages
    /\ NeedsSecondPass(failed_pages)
    /\ retry_session' = create_session(sessions_created)
    /\ sessions_created' = sessions_created + 1
    /\ retry_index' = 1
    /\ retry_count' = 0
    /\ pc' = "second"
    /\ UNCHANGED <<session, server_total, budget, total_count, num_pages, page,
                   offset, products, failed_pages, requests, sleeps, log>>
    /\ UNCHANGED outsideFetchAll

(***************************************************************************)
(* Second pass (lines 133-210): one iteration of the while loop, that is   *)
(* one attempt of the page failed_pages[retry_index].                      *)
(***************************************************************************)
\* wait_time = 60 * retry_count
BlockedWait(count) == BLOCKED_BACKOFF * count

\* wait_time = (2 ** retry_count) * 5
ErrorWaitFromZero(count) == (2 ^ (count - 1)) * ERROR_BACKOFF

ErrorWait(count) == (2 ^ count) * ERROR_BACKOFF

\* variant: off by one, a fourth attempt is allowed
MayRetryOnceMore(count) == count <= max_retries

\* if retry_count < max_retries: sleep and try again, else: log and break
MayRetry(count) == count < max_retries

\* variant: the second pass without its `except Exception` handler
SecondPassCatchesRequestErrors(exc) == IsInstance(exc, "RequestException")

\* except requests.exceptions.RequestException (line 191), except Exception (line 201)
SecondPassCatches(exc) ==
    IsInstance(exc, "RequestException") \/ IsInstance(exc, "Exception")

\* variant: the retry goes through the session of the first pass
SecondPassSessionReused(first, fresh) == first

\* the session line 142 issues the request through
SecondPassSession(first, fresh) == fresh

SecondPassAttempt ==
    /\ pc = "second"
    /\ retry_index <= Len(failed_pages)
    /\ \E resp \in PageResponses(failed_pages[retry_index]) :
         LET p == failed_pages[retry_index]
             r == Attempt(resp, products)
             caught == r.result = "exc" /\ SecondPassCatches(r.exc)
             count == retry_count + 1
             wait == IF r.result = "blocked" THEN BlockedWait(count)
                     ELSE ErrorWait(count)
         IN  /\ (resp # GoodResponse(p)) => budget > 0
             /\ budget' = IF resp # GoodResponse(p) THEN budget - 1 ELSE budget
             /\ offset' = PageOffset(p)
             /\ requests' = Append(requests,
                     Request(2, PageOffset(p),
                             SecondPassSession(session, retry_session),
                             OutcomeClass(r)))
             /\ products' = r.products
             /\ IF r.result = "ok"
                THEN \* success = True: the while loop ends, next failed page
                     /\ retry_index' = retry_index + 1
                     /\ retry_count' = 0
                     /\ pc' = "second"
                     /\ UNCHANGED <<sleeps, log>>
                ELSE IF r.result = "exc" /\ ~caught
                THEN /\ pc' = "raised"
                     /\ UNCHANGED <<retry_index, retry_count, sleeps, log>>
                ELSE IF MayRetry(count)
                THEN \* time.sleep(wait_time), then the next attempt of this page
                     /\ retry_count' = count
                     /\ sleeps' = Append(sleeps, [page |-> p, wait |-> wait])
                     /\ pc' = "second"
                     /\ UNCHANGED <<retry_index, log>>
                ELSE \* the page is given up: logged, break, next failed page
                     /\ log' = Append(log, p + 1)
                     /\ retry_index' = retry_index + 1
                     /\ retry_count' = 0
                     /\ pc' = "second"
                     /\ UNCHANGED sleeps
    /\ UNCHANGED <<session, retry_session, sessions_created, server_total,
                   total_count, num_pages, page, failed_pages>>
    /\ UNCHANGED outsideFetchAll

(***************************************************************************)
(* return pd.DataFrame(products) (line 212).                               *)
(***************************************************************************)
Return ==
    /\ \/ pc = "first" /\ page >= num_pages /\ ~NeedsSecondPass(failed_pages)
       \/ pc = "second" /\ retry_index > Len(failed_pages)
    /\ pc' = "done"
    /\ UNCHANGED <<session, retry_session, sessions_created, server_total, budget,
                   total_count, num_pages, page, offset, products, failed_pages,
                   retry_index, retry_count, requests, sleeps, log>>
    /\ UNCHANGED outsideFetchAll

(***************************************************************************)
(* Specifications.                                                         *)
(***************************************************************************)
InitWith(totals, failures) ==
    /\ pc = "start"
    /\ session \in {-1, 0}
    /\ retry_session = -1
    /\ sessions_created = 0
    /\ server_total \in totals
    /\ budget = failures
    /\ total_count = 0
    /\ num_pages = 0
    /\ page = 0
    /\ offset = 0
    /\ products = <<>>
    /\ failed_pages = <<>>
    /\ retry_index = 0
    /\ retry_count = 0
    /\ requests = <<>>
    /\ sleeps = <<>>
    /\ log = <<>>
    /\ OutsideFetchAllIdle

Init == InitWith(Totals, MaxFailures)

InitPaging == InitWith(PagingTotals, MaxPagingFailures)

Next ==
    \/ Start
    \/ FirstPassPage
    \/ BeginSecondPass
    \/ SecondPassAttempt
    \/ Return

\* runs over catalogues of at most three pages, with up to MaxFailures failures
Spec == Init /\ [][Next]_vars

\* runs over catalogues up to and beyond the MAX_PRODUCTS cap, with few failures
SpecPaging == InitPaging /\ [][Next]_vars

\* the program does not stop by itself: a step that can be taken is taken
FairSpec == Spec /\ WF_vars(Next)

(***************************************************************************)
(* Reading the history.                                                    *)
(***************************************************************************)
FirstPassRequests == SelectSeq(requests, LAMBDA r : r.pass = 1)
SecondPassRequests == SelectSeq(requests, LAMBDA r : r.pass = 2)

\* the requests of the second pass for page p, in order
RetriesOf(p) == SelectSeq(requests, LAMBDA r : r.pass = 2 /\ r.offset = p * 60)

\* the waits taken for page p, in order
WaitsOf(p) ==
    LET s == SelectSeq(sleeps, LAMBDA w : w.page = p)
    IN  [i \in 1..Len(s) |-> s[i].wait]

Range(seq) == {seq[i] : i \in 1..Len(seq)}

\* the page a product belongs to
PageOfSku(sku) == sku \div 60

\* how often sku occurs in the result
Occurrences(sku) == Cardinality({i \in 1..Len(products) : products[i].sku = sku})

\* page p succeeded at some attempt of the second pass
RetrySucceeded(p) == \E i \in 1..Len(RetriesOf(p)) : RetriesOf(p)[i].outcome = "ok"

\* the products of page p, all of them, in the order of the page
ProductsOfPage(p) == [i \in 1..EntriesPerPage |-> [sku |-> p * 60 + (i - 1)]]

\* the pages whose first-pass request did not succeed, in the order of the requests
FailedInFirstPass ==
    LET fp == FirstPassRequests
    IN  SelectSeq([i \in 1..Len(fp) |-> i - 1], LAMBDA p : fp[p + 1].outcome # "ok")

\* the products of the pages of the successful requests of reqs, request after request
RECURSIVE ProductsOfSuccesses(_)
ProductsOfSuccesses(reqs) ==
    IF reqs = <<>> THEN <<>>
    ELSE (IF Head(reqs).pass >= 1 /\ Head(reqs).outcome = "ok"
          THEN ProductsOfPage(Head(reqs).offset \div 60)
          ELSE <<>>) \o ProductsOfSuccesses(Tail(reqs))

(***************************************************************************)
(* Claims.                                                                 *)
(***************************************************************************)

\* C1: when every page that failed the first pass (by 403, another HTTP error,
\* an undecodable body, a missing 'data' or a transport error) succeeds at some
\* attempt of the second pass, the returned products are exactly the entries of
\* pages 0..p-1, each once.
C1_ResultIsUnionOfPages ==
    ( /\ pc = "done"
      /\ \A i \in 1..Len(FirstPassRequests) :
            FirstPassRequests[i].outcome \in {"ok", "blocked", "error"}
      /\ \A p \in Range(failed_pages) : RetrySucceeded(p) )
    => /\ Len(products) = num_pages * EntriesPerPage
       /\ \A p \in 0..(num_pages - 1) : \A i \in 1..EntriesPerPage :
             Occurrences(p * 60 + (i - 1)) = 1

\* C2: a page that fails the first pass and every attempt of the second pass
\* leaves none of its products in the returned result, and its page number is
\* logged as given up.
C2_DroppedPageAbsentAndLogged ==
    pc = "done" =>
        \A p \in Range(failed_pages) :
            ~RetrySucceeded(p) =>
                /\ \A i \in 1..Len(products) : PageOfSku(products[i].sku) # p
                /\ (p + 1) \in Range(log)

\* C3: the first pass requests every page 0..num_pages-1 once, in ascending
\* order, whatever the earlier outcomes; a failing page is only recorded in
\* failed_pages (nothing is appended for a 403, HTTP error, bad body, missing
\* 'data' or transport error, nothing waits, nothing is retried at once); no
\* request of the second pass is issued before the last page was requested.
C3_FirstPassAttemptsEveryPage ==
    LET fp == FirstPassRequests
    IN  /\ Len(fp) <= num_pages
        /\ \A i \in 1..Len(fp) : fp[i].offset = (i - 1) * 60
        /\ pc \in {"second", "done"} => Len(fp) = num_pages
        /\ \A i \in 1..Len(requests) :
              requests[i].pass = 2 =>
                 /\ Len(fp) = num_pages
                 /\ \A j \in 1..Len(requests) : requests[j].pass < 2 => j < i
        /\ failed_pages = FailedInFirstPass
        /\ pc = "first" =>
              /\ sleeps = <<>> /\ log = <<>> /\ retry_session = -1
              /\ \A k \in 1..Len(products) :
                    fp[PageOfSku(products[k].sku) + 1].outcome \in {"ok", "entry"}

\* a failure of the first page did not keep the later pages from being requested
C3_Witness ==
    /\ pc = "second"
    /\ num_pages = 3
    /\ Len(FirstPassRequests) = 3
    /\ FirstPassRequests[1].outcome = "blocked"
    /\ FirstPassRequests[2].outcome = "error"
    /\ FirstPassRequests[3].outcome = "ok"
    /\ SecondPassRequests = <<>>

\* C4: num_pages = ceil(min(MAX_PRODUCTS, totalCount) / DEFAULT_LIMIT) and page k
\* is requested with offset k * DEFAULT_LIMIT; totalCount = 0 gives no page request
\* and an empty result; totalCount = 130 gives 3 pages with offsets 0, 60, 120.
C4_PageCountAndOffsets ==
    pc \notin {"start", "raised"} =>
        LET eff == IF total_count < 1000 THEN total_count ELSE 1000
            fp == FirstPassRequests
        IN  /\ num_pages * 60 >= eff
            /\ (num_pages - 1) * 60 < eff
            /\ \A i \in 1..Len(fp) : fp[i].offset = (i - 1) * 60
            /\ \A i \in 1..Len(requests) :
                  requests[i].pass >= 1 => requests[i].offset \div 60 < num_pages
            /\ pc = "done" => Len(fp) = num_pages
            /\ (pc = "done" /\ total_count = 0) =>
                  /\ Len(requests) = 1
                  /\ products = <<>>
            /\ (pc = "done" /\ total_count = 130) =>
                  [i \in 1..Len(fp) |-> fp[i].offset] = <<0, 60, 120>>

\* a catalogue beyond the cap: 17 pages, the last one at offset 960
C4_Witness ==
    /\ pc = "done"
    /\ total_count > 1000
    /\ Len(FirstPassRequests) = 17
    /\ FirstPassRequests[17].offset = 960

\* C5: a failure of the initial total-count request propagates to the caller: no
\* page request follows and nothing is returned.
C5_InitialFailurePropagates ==
    (requests # <<>> /\ requests[1].outcome # "ok") =>
        /\ pc = "raised"
        /\ Len(requests) = 1
        /\ products = <<>>

C5_Witness ==
    /\ pc = "raised"
    /\ Len(requests) = 1
    /\ requests[1].outcome = "error"

\* C6: once the initial request has succeeded the function never raises and
\* always returns, whatever the outcomes of the page requests of both passes,
\* entries the field extractor cannot decode included.
C6_NeverRaisesAlwaysReturns ==
    /\ []((requests # <<>> /\ requests[1].outcome = "ok") => pc # "raised")
    /\ (pc = "first") ~> (pc = "done")

\* the extractor raised in both passes and the function returned all the same
C6_Witness ==
    /\ pc = "done"
    /\ \E i \in 1..Len(requests) : requests[i].pass = 1 /\ requests[i].outcome = "entry"
    /\ \E i \in 1..Len(requests) : requests[i].pass = 2 /\ requests[i].outcome = "entry"

\* C7: in the second pass a failed page is requested at most 3 times, all failure
\* kinds counting against the same counter; no request of a page follows its
\* first success; a page that succeeded in the first pass is not requested.
C7_AtMostThreeRetries ==
    /\ \A p \in 0..(num_pages - 1) :
          LET rs == RetriesOf(p)
          IN  /\ Len(rs) <= 3
              /\ \A i \in 1..Len(rs) : rs[i].outcome = "ok" => i = Len(rs)
              /\ rs # <<>> => p \in Range(FailedInFirstPass)
    /\ \A i \in 1..Len(requests) :
          requests[i].pass = 2 => requests[i].offset \div 60 < num_pages
    /\ (pc = "second" /\ retry_index <= Len(failed_pages)) =>
          retry_count = Len(RetriesOf(failed_pages[retry_index]))

\* three attempts of one page failed in three different ways and it was given up
C7_Witness ==
    /\ pc = "done"
    /\ failed_pages = <<0>>
    /\ Len(RetriesOf(0)) = 3
    /\ RetriesOf(0)[1].outcome = "blocked"
    /\ RetriesOf(0)[2].outcome = "error"
    /\ RetriesOf(0)[3].outcome = "entry"
    /\ log = <<1>>

\* C8: a page blocked (403) at every attempt of the second pass waits 60s, 120s
\* and 180s for its three attempts.
C8_BlockedWaits60_120_180 ==
    \A p \in 0..(num_pages - 1) :
        ( /\ (p + 1) \in Range(log)
          /\ Len(RetriesOf(p)) = 3
          /\ \A i \in 1..3 : RetriesOf(p)[i].outcome = "blocked" )
        => WaitsOf(p) = <<60, 120, 180>>

\* C9: a fresh session is constructed exactly when a page failed the first pass,
\* once, before the first request of the second pass; every request of the second
\* pass goes through it and none through the session of the first pass; with no
\* failed page there is no second session and no request of the second pass.
C9_FreshSessionForRetries ==
    /\ pc \in {"start", "first", "raised"} => retry_session = -1
    /\ pc \in {"second", "done"} => (retry_session # -1 <=> failed_pages # <<>>)
    /\ sessions_created = (IF session >= 1 THEN 1 ELSE 0)
                            + (IF retry_session # -1 THEN 1 ELSE 0)
    /\ \A i \in 1..Len(requests) :
          IF requests[i].pass = 2
          THEN /\ retry_session # -1
               /\ requests[i].session = retry_session
               /\ requests[i].session # session
          ELSE requests[i].session = session
    /\ (pc = "done" /\ failed_pages = <<>>) => SecondPassRequests = <<>>

\* the caller's session served the first pass and a new one served two retries
C9_Witness ==
    /\ pc = "done"
    /\ session = 0
    /\ retry_session = 1
    /\ Len(SecondPassRequests) >= 2

\* C10: the result holds the products of the pages that succeeded in the first
\* pass, in ascending page order, followed by the products of the retried pages
\* in the order in which they succeeded; no product of a retried page precedes a
\* product of a first-pass page.
C10_ResultOrder ==
    pc = "done" => products = ProductsOfSuccesses(requests)

\* C31: every list entry of a page is appended to the result at most once over
\* both passes, also when decoding the page's list failed at a later entry,
\* and a page that ends up dropped leaves none of its entries in the result.
C31_EntryAppendedAtMostOnce ==
    /\ \A i, j \in 1..Len(products) : products[i].sku = products[j].sku => i = j
    /\ pc = "done" =>
          \A p \in Range(failed_pages) :
              ~RetrySucceeded(p) => \A sku \in Range(ProductsOfPage(p)) :
                                        Occurrences(sku.sku) = 0

\* requests that carry offset 0
OffsetZeroRequests == SelectSeq(requests, LAMBDA r : r.offset = 0)

\* C35: fetch_all_products always terminates and issues at most 1 + p + 3*|F|
\* GET requests, p the page count and F the pages failed in the first pass; the
\* entries of the total-count response are never added to the result; when no
\* page fails it issues exactly 1 + p requests and returns the entries of the p
\* pages, and two of the requests carry offset 0 when p >= 1, one when p = 0.
C35_RequestBudget ==
    /\ [](/\ Len(requests) <= 1 + num_pages + 3 * Len(failed_pages)
          /\ (\A i \in 1..Len(requests) : requests[i].pass = 0) => products = <<>>
          /\ (pc = "done" /\ failed_pages = <<>>) =>
                /\ Len(requests) = 1 + num_pages
                /\ Len(products) = num_pages * EntriesPerPage
                /\ Len(OffsetZeroRequests) = IF num_pages = 0 THEN 1 ELSE 2)
    /\ <>(pc \in {"done", "raised"})

\* three pages, none failed: four requests, the first two with offset 0
C35_Witness ==
    /\ pc = "done"
    /\ failed_pages = <<>>
    /\ num_pages = 3
    /\ Len(requests) = 4
    /\ requests[1].offset = 0 /\ requests[1].pass = 0
    /\ requests[2].offset = 0 /\ requests[2].pass = 1

\* C35 as stated: a run without a failed page has two requests with offset 0
C35_TwoRequestsWithOffsetZero ==
    (pc = "done" /\ failed_pages = <<>>) => Len(OffsetZeroRequests) = 2

(***************************************************************************)
(* Part 2: fetch_products_by_category (product_fetcher.py, lines 215-292): *)
(* one total-count request, then one request per page, all inside one try  *)
(* block; the page loop has a try block of its own.                        *)
(***************************************************************************)
CATEGORY_LIMIT == 12

\* the position of an entry the extractor raises on is among the first MaxBadEntry
MaxBadEntry == 2

\* the max_products arguments and the category sizes the runs are drawn from
MaxProductsValues == {1, 5, 12, 13, 24, 30}
CategoryTotals == {0, 1, 11, 12, 13, 25, 40}

Min(a, b) == IF a < b THEN a ELSE b
Max(a, b) == IF a > b THEN a ELSE b

\* fetch_all_products is not running
FetchAllIdle ==
    /\ pc = "idle"
    /\ session = -1
    /\ retry_session = -1
    /\ sessions_created = 0
    /\ server_total = 0
    /\ budget = 0
    /\ total_count = 0
    /\ num_pages = 0
    /\ page = 0
    /\ offset = 0
    /\ products = <<>>
    /\ failed_pages = <<>>
    /\ retry_index = 0
    /\ retry_count = 0
    /\ log = <<>>

\* the server honours limit and offset: the entries of the category from
\* offset on, at most CATEGORY_LIMIT of them; it does not know max_products
EntriesAt(total, off) == Min(CATEGORY_LIMIT, Max(0, total - off))

CategoryPageData(total, off, bad) ==
    [i \in 1..EntriesAt(total, off) |-> [sku |-> off + (i - 1), complete |-> (i # bad)]]

CategoryDataBody(total, off, bad) ==
    [transport |-> FALSE, status |-> 200, json |-> TRUE,
     has_data |-> TRUE, data |-> CategoryPageData(total, off, bad)]

CategoryPageResponses(total, off) ==
    {TransportFailure, StatusResponse(403), StatusResponse(500), GarbageBody, NoDataBody}
        \cup {CategoryDataBody(total, off, bad) :
                bad \in 0..Min(MaxBadEntry, EntriesAt(total, off))}

\* the responses to the total-count request: a transport failure, an error
\* status, an undecodable body, a JSON value that is no object, an object
\* without meta.pagination.totalCount, an object with it
CategoryInitialResponses ==
    {[transport |-> TRUE, status |-> 0, json |-> FALSE, object |-> FALSE, has_total |-> FALSE],
     [transport |-> FALSE, status |-> 403, json |-> FALSE, object |-> FALSE, has_total |-> FALSE],
     [transport |-> FALSE, status |-> 500, json |-> FALSE, object |-> FALSE, has_total |-> FALSE],
     [transport |-> FALSE, status |-> 200, json |-> FALSE, object |-> FALSE, has_total |-> FALSE],
     [transport |-> FALSE, status |-> 200, json |-> TRUE, object |-> FALSE, has_total |-> FALSE],
     [transport |-> FALSE, status |-> 200, json |-> TRUE, object |-> TRUE, has_total |-> FALSE],
     [transport |-> FALSE, status |-> 200, json |-> TRUE, object |-> TRUE, has_total |-> TRUE]}

\* the exception lines 246-251 raise on resp, "none" when they raise nothing
CategoryInitialException(resp) ==
    IF resp.transport THEN "ConnectionError"
    ELSE IF resp.status >= 400 THEN "HTTPError"
    ELSE IF ~resp.json THEN "JSONDecodeError"
    ELSE IF ~resp.object THEN "AttributeError"
    ELSE "none"

\* pagination.get('totalCount', 0)
CategoryTotalCount(resp, total) == IF resp.has_total THEN total ELSE 0

\* max_offset = min(max_products, total_count)
\* num_pages = (max_offset + limit - 1) // limit
CategoryNumPages(m, total) == (Min(m, total) + CATEGORY_LIMIT - 1) \div CATEGORY_LIMIT

\* params['offset'] = page * limit
CategoryOffset(p) == p * CATEGORY_LIMIT

\* variant: the outer try without its `except Exception` handler
CategoryOuterCatchesRequestErrors(exc) == IsInstance(exc, "RequestException")

\* except RequestException (line 287), except Exception (line 289)
CategoryOuterCatches(exc) ==
    IsInstance(exc, "RequestException") \/ IsInstance(exc, "Exception")

\* except RequestException (line 280), except Exception (line 283)
CategoryPageCatches(exc) ==
    IsInstance(exc, "RequestException") \/ IsInstance(exc, "Exception")

\* the try body of one page (lines 264-278); response.json() has no handler
\* of its own here
CategoryAttempt(resp, prods) ==
    IF resp.transport
    THEN [result |-> "exc", exc |-> "ConnectionError", products |-> prods]
    ELSE IF resp.status = 403
    THEN [result |-> "blocked", exc |-> "none", products |-> prods]
    ELSE IF resp.status >= 400
    THEN [result |-> "exc", exc |-> "HTTPError", products |-> prods]
    ELSE IF ~resp.json
    THEN [result |-> "exc", exc |-> "JSONDecodeError", products |-> prods]
    ELSE IF ~resp.has_data
    THEN [result |-> "nodata", exc |-> "none", products |-> prods]
    ELSE LET a == AppendPage(prods, resp.data)
         IN  [result |-> IF a.exc = "none" THEN "ok" ELSE "exc",
              exc |-> a.exc, products |-> a.products]

\* variant: continue instead of break, the loop goes on after a failed page
CategoryContinue(p) == p + 1

\* break (lines 268, 275, 282, 285): the page loop ends
CategoryBreak(p) == c_num_pages

CategoryStart ==
    /\ c_pc = "start"
    /\ \E resp \in CategoryInitialResponses :
         LET exc == CategoryInitialException(resp)
             total == CategoryTotalCount(resp, c_server_total)
         IN  /\ requests' = Append(requests,
                     Request(0, 0, 0, IF exc = "none" THEN "ok" ELSE "error"))
             /\ IF exc = "none"
                THEN /\ c_total_count' = total
                     /\ c_num_pages' = CategoryNumPages(max_products, total)
                     /\ c_pc' = "pages"
                ELSE /\ c_pc' = IF CategoryOuterCatches(exc) THEN "done" ELSE "raised"
                     /\ UNCHANGED <<c_total_count, c_num_pages>>
    /\ UNCHANGED <<max_products, c_server_total, c_page, c_products, sleeps,
                   fetchAllVars, detailVars, discoveryVars,
                   walmartVars, searchVars>>

CategoryPage ==
    /\ c_pc = "pages"
    /\ c_page < c_num_pages
    /\ \E resp \in CategoryPageResponses(c_server_total, CategoryOffset(c_page)) :
         LET r == CategoryAttempt(resp, c_products)
         IN  /\ requests' = Append(requests,
                     Request(1, CategoryOffset(c_page), 0, OutcomeClass(r)))
             /\ c_products' = r.products
             /\ IF r.result = "ok"
                THEN /\ c_page' = c_page + 1
                     /\ c_pc' = "pages"
                ELSE IF r.result = "exc" /\ ~CategoryPageCatches(r.exc)
                THEN /\ c_pc' = IF CategoryOuterCatches(r.exc) THEN "done" ELSE "raised"
                     /\ UNCHANGED c_page
                ELSE /\ c_page' = CategoryBreak(c_page)
                     /\ c_pc' = "pages"
    /\ UNCHANGED <<max_products, c_server_total, c_total_count, c_num_pages, sleeps,
                   fetchAllVars, detailVars, discoveryVars,
                   walmartVars, searchVars>>

\* return pd.DataFrame(products) (line 292)
CategoryReturn ==
    /\ c_pc = "pages"
    /\ c_page >= c_num_pages
    /\ c_pc' = "done"
    /\ UNCHANGED <<max_products, c_server_total, c_total_count, c_num_pages, c_page,
                   c_products, historyVars, fetchAllVars, detailVars, discoveryVars,
                   walmartVars, searchVars>>

InitCategory ==
    /\ FetchAllIdle
    /\ DetailIdle
    /\ DiscoveryIdle
    /\ WalmartIdle
    /\ SearchIdle
    /\ requests = <<>>
    /\ sleeps = <<>>
    /\ c_pc = "start"
    /\ max_products \in MaxProductsValues
    /\ c_server_total \in CategoryTotals
    /\ c_total_count = 0
    /\ c_num_pages = 0
    /\ c_page = 0
    /\ c_products = <<>>

NextCategory ==
    \/ CategoryStart
    \/ CategoryPage
    \/ CategoryReturn

\* one call of fetch_products_by_category
SpecCategory == InitCategory /\ [][NextCategory]_vars

\* the page requests of the call, in order
CategoryPageRequests == SelectSeq(requests, LAMBDA r : r.pass = 1)

\* the products of the first k pages of the category, entry after entry
RECURSIVE CategoryPages(_)
CategoryPages(k) ==
    IF k <= 0 THEN <<>>
    ELSE CategoryPages(k - 1) \o
         [i \in 1..Min(12, Max(0, c_server_total - (k - 1) * 12)) |->
              [sku |-> (k - 1) * 12 + (i - 1)]]

\* C11: fetch_products_by_category is single-pass: after the first page request
\* that is blocked, gets another HTTP error, a malformed body or a transport
\* error, no page is requested any more; no page is requested twice; nothing
\* sleeps; the products of the earlier pages are returned unchanged.
C11_SinglePassNoRetry ==
    LET pr == CategoryPageRequests
    IN  /\ \A i \in 1..Len(pr) : pr[i].offset = (i - 1) * 12
        /\ \A i \in 1..(Len(pr) - 1) : pr[i].outcome = "ok"
        /\ sleeps = <<>>
        /\ (c_pc = "done" /\ pr # <<>> /\ pr[Len(pr)].outcome # "ok") =>
              LET earlier == CategoryPages(Len(pr) - 1)
              IN  /\ Len(c_products) >= Len(earlier)
                  /\ SubSeq(c_products, 1, Len(earlier)) = earlier
                  /\ pr[Len(pr)].outcome \in {"blocked", "error"} =>
                        c_products = earlier

\* the first page was fetched, the second was blocked, the third never requested
C11_Witness ==
    /\ c_pc = "done"
    /\ c_num_pages = 3
    /\ Len(CategoryPageRequests) = 2
    /\ CategoryPageRequests[2].outcome = "blocked"
    /\ Len(c_products) = 12

\* C12: fetch_products_by_category never raises, whatever the outcome of any of
\* its requests; when the total-count request fails the result is empty.
C12_CategoryNeverRaises ==
    /\ c_pc # "raised"
    /\ c_pc \in {"start", "pages"} => ENABLED NextCategory
    /\ (requests # <<>> /\ requests[1].outcome # "ok") =>
          /\ c_pc = "done"
          /\ c_products = <<>>
          /\ Len(requests) = 1

\* the total-count request failed and an empty result was returned
C12_Witness ==
    /\ c_pc = "done"
    /\ Len(requests) = 1
    /\ requests[1].outcome = "error"
    /\ c_products = <<>>

\* C13: fetch_products_by_category(max_products = m) returns at most m products
\* when every page carries at most 12 entries; with m below the page size
\* exactly one page is requested and the result holds at most m products.
C13_AtMostMaxProducts ==
    c_pc = "done" =>
        /\ Len(c_products) <= max_products
        /\ (max_products < 12 /\ requests[1].outcome = "ok" /\ c_total_count > 0) =>
              Len(CategoryPageRequests) = 1

(***************************************************************************)
(* Part 3: fetch_product_details (product_fetcher.py, lines 331-400): up   *)
(* to max_retries requests.get calls; only RequestException is caught.     *)
(*                                                                         *)
(* A category key is a string, modelled as the sequence of its characters, *)
(* so that truthiness (non-empty) and str.strip() are computed.            *)
(***************************************************************************)
DETAIL_MAX_RETRIES == 3
DETAIL_BACKOFF == 2

\* entries of the upstream categories[] list of one product
MaxCategories == 2

Whitespace == {" ", "\t"}

Digit(n) == <<"0", "1", "2", "3", "4", "5", "6", "7", "8", "9">>[n + 1]

\* the key written with the decimal digits of n
RECURSIVE KeyOf(_)
KeyOf(n) == IF n < 10 THEN <<Digit(n)>> ELSE KeyOf(n \div 10) \o <<Digit(n % 10)>>

\* str.strip()
RECURSIVE LStrip(_)
LStrip(k) == IF k # <<>> /\ Head(k) \in Whitespace THEN LStrip(Tail(k)) ELSE k
RECURSIVE RStrip(_)
RStrip(k) ==
    IF k # <<>> /\ k[Len(k)] \in Whitespace THEN RStrip(SubSeq(k, 1, Len(k) - 1)) ELSE k
Strip(k) == RStrip(LStrip(k))

\* bool(k) of a string
Truthy(k) == k # <<>>

\* one entry of categories[]: a dict that may hold 'key' and may hold 'id'
CategoryEntry(has_key, key, has_id, id) ==
    [has_key |-> has_key, key |-> key, has_id |-> has_id, id |-> id]

\* the shapes of an entry: key only, id only, both, an empty key with an id, a
\* whitespace-only key, an empty key alone, neither
EntryShapes ==
    {CategoryEntry(TRUE, KeyOf(1), FALSE, <<>>),
     CategoryEntry(FALSE, <<>>, TRUE, KeyOf(2)),
     CategoryEntry(TRUE, KeyOf(1), TRUE, KeyOf(2)),
     CategoryEntry(TRUE, <<>>, TRUE, KeyOf(2)),
     CategoryEntry(TRUE, <<" ">>, FALSE, <<>>),
     CategoryEntry(TRUE, <<>>, FALSE, <<>>),
     CategoryEntry(FALSE, <<>>, FALSE, <<>>)}

CategoryLists ==
    UNION {[1..n -> EntryShapes] : n \in 0..MaxCategories}

\* cat.get('key') and cat.get('id'): None (falsy) when the key is absent
GetKeyTruthy(cat) == cat.has_key /\ Truthy(cat.key)
GetIdTruthy(cat) == cat.has_id /\ Truthy(cat.id)

\* cat.get('key', cat.get('id', '')): the default is used only when 'key' is absent
KeyOrId(cat) == IF cat.has_key THEN cat.key ELSE IF cat.has_id THEN cat.id ELSE <<>>

\* [cat.get('key', cat.get('id', '')) for cat in category_list
\*      if cat.get('key') or cat.get('id')]                          (line 378)
RECURSIVE CategoryKeys(_)
CategoryKeys(list) ==
    IF list = <<>> THEN <<>>
    ELSE (IF GetKeyTruthy(Head(list)) \/ GetIdTruthy(Head(list))
          THEN <<KeyOrId(Head(list))>> ELSE <<>>) \o CategoryKeys(Tail(list))

\* the responses of the detail endpoint to the request for sku
DetailResponse(kind, status, flavour, has_sku, sku, categories) ==
    [kind |-> kind, status |-> status, flavour |-> flavour,
     has_sku |-> has_sku, sku |-> sku, categories |-> categories]

DetailResponses(sku) ==
    {DetailResponse("transport", 0, "none", FALSE, 0, <<>>),
     DetailResponse("status", 403, "none", FALSE, 0, <<>>),
     DetailResponse("status", 500, "none", FALSE, 0, <<>>),
     DetailResponse("garbage", 200, "JSONDecodeError", FALSE, 0, <<>>),
     DetailResponse("garbage", 200, "RequestsJSONDecodeError", FALSE, 0, <<>>),
     DetailResponse("nodata", 200, "none", FALSE, 0, <<>>),
     DetailResponse("data", 200, "none", FALSE, 0, <<>>)}
        \cup {DetailResponse("data", 200, "none", TRUE, sku, cats) :
                cats \in CategoryLists}

\* the try body (lines 362-390)
DetailTry(resp) ==
    IF resp.kind = "transport"
    THEN [result |-> "exc", exc |-> "ConnectionError", record |-> empty_result(0)]
    ELSE IF resp.status = 403
    THEN [result |-> "blocked", exc |-> "none", record |-> empty_result(0)]
    ELSE IF resp.status >= 400
    THEN [result |-> "exc", exc |-> "HTTPError", record |-> empty_result(0)]
    ELSE IF resp.kind = "garbage"
    THEN [result |-> "exc", exc |-> resp.flavour, record |-> empty_result(0)]
    ELSE IF resp.kind = "nodata" \/ ~resp.has_sku
    THEN [result |-> "exc", exc |-> "KeyError", record |-> empty_result(0)]
    ELSE [result |-> "ok", exc |-> "none",
          record |-> [sku |-> resp.sku, description |-> "text",
                      category_keys |-> CategoryKeys(resp.categories),
                      image_url |-> "url"]]

\* except requests.exceptions.RequestException (line 391)
DetailCatches(exc) == IsInstance(exc, "RequestException")

\* if attempt < max_retries - 1 (lines 365, 392)
DetailMayRetry(attempt) == attempt < DETAIL_MAX_RETRIES - 1

\* wait_time = (2 ** attempt) * 2 (lines 366, 393)
DetailWait(attempt) == (2 ^ attempt) * DETAIL_BACKOFF

\* one iteration of `for attempt in range(max_retries)`; the return after the
\* loop (line 400) is not reached with max_retries = 3
DetailAttempt ==
    /\ d_pc = "run"
    /\ d_attempt < DETAIL_MAX_RETRIES
    /\ \E resp \in DetailResponses(d_sku) :
         LET r == DetailTry(resp)
         IN  /\ requests' = Append(requests,
                     Request(d_attempt, 0, -1, OutcomeClass(r)))
             /\ IF r.result = "ok"
                THEN /\ d_result' = r.record
                     /\ category_list' = resp.categories
                     /\ d_pc' = "done"
                     /\ UNCHANGED <<d_attempt, sleeps>>
                ELSE IF r.result = "exc" /\ ~DetailCatches(r.exc)
                THEN /\ d_pc' = "raised"
                     /\ UNCHANGED <<d_attempt, d_result, category_list, sleeps>>
                ELSE IF DetailMayRetry(d_attempt)
                THEN /\ sleeps' = Append(sleeps,
                            [page |-> d_attempt, wait |-> DetailWait(d_attempt)])
                     /\ d_attempt' = d_attempt + 1
                     /\ d_pc' = "run"
                     /\ UNCHANGED <<d_result, category_list>>
                ELSE /\ d_result' = empty_result(d_sku)
                     /\ d_pc' = "done"
                     /\ UNCHANGED <<d_attempt, category_list, sleeps>>
    /\ UNCHANGED <<d_sku, fetchAllVars, categoryVars, discoveryVars, walmartVars, searchVars>>

DetailSkus == {1, 2}

InitDetail ==
    /\ FetchAllIdle
    /\ CategoryIdle
    /\ DiscoveryIdle
    /\ WalmartIdle
    /\ SearchIdle
    /\ requests = <<>>
    /\ sleeps = <<>>
    /\ d_pc = "run"
    /\ d_sku \in DetailSkus
    /\ d_attempt = 0
    /\ d_result = empty_result(0)
    /\ category_list = <<>>

NextDetail == DetailAttempt

\* one call of fetch_product_details
SpecDetail == InitDetail /\ [][NextDetail]_vars

IsBlankKey(k) == k = <<>> \/ Strip(k) = <<>>

\* C19: the category_keys of a record returned by fetch_product_details hold no
\* empty and no whitespace-only string, whatever the shape of categories[].
C19_NoBlankKeysInRecord ==
    d_pc = "done" =>
        \A i \in 1..Len(d_result.category_keys) : ~IsBlankKey(d_result.category_keys[i])

\* C20: fetch_product_details never raises: after a transport error, a blocked or
\* error status, an undecodable body, a body without 'data' or a 'data' record
\* missing expected fields it returns the requested sku with empty defaults.
C20_DetailNeverRaises ==
    /\ d_pc # "raised"
    /\ (d_pc = "done" /\ requests[Len(requests)].outcome # "ok") =>
          d_result = [sku |-> d_sku, description |-> "", category_keys |-> <<>>,
                      image_url |-> "None"]

\* C29: in the second pass of fetch_all_products a failed attempt number n of a
\* page (n = 1, 2, ...) that was not a 403 is followed by a wait of (2^n) x 5
\* seconds, every failed attempt but the last allowed one is followed by one
\* wait, and the last allowed attempt by none.
C29_ErrorBackoff ==
    \A p \in 0..(num_pages - 1) :
        /\ Len(WaitsOf(p)) =
              Cardinality({i \in 1..Len(RetriesOf(p)) :
                              i < max_retries /\ RetriesOf(p)[i].outcome # "ok"})
        /\ Len(WaitsOf(p)) <= max_retries - 1
        /\ \A i \in 1..Len(WaitsOf(p)) :
              RetriesOf(p)[i].outcome \in {"error", "entry"} =>
                  WaitsOf(p)[i] = (2 ^ i) * 5

\* three failed attempts of page 0, none of them blocked: waits of 10s and 20s
C29_Witness ==
    /\ pc = "done"
    /\ Len(RetriesOf(0)) = 3
    /\ \A i \in 1..3 : RetriesOf(0)[i].outcome = "error"
    /\ WaitsOf(0) = <<10, 20>>
    /\ log = <<1>>

\* the waits of the call, in order
DetailWaits == [i \in 1..Len(sleeps) |-> sleeps[i].wait]

\* C21: fetch_product_details issues at most 3 requests and returns at the first
\* successful response; when every attempt is blocked or fails in transport it
\* waits 2s, 4s and 8s and then returns the empty placeholder.
C21_DetailBackoff2_4_8 ==
    /\ Len(requests) <= 3
    /\ \A i \in 1..Len(requests) :
          requests[i].outcome = "ok" => (i = Len(requests) /\ d_pc = "done")
    /\ ( /\ d_pc = "done"
         /\ Len(requests) = 3
         /\ \A i \in 1..3 : requests[i].outcome \in {"blocked", "error"} )
       => (DetailWaits = <<2, 4, 8>> /\ d_result = empty_result(d_sku))

\* the key an entry of categories[] should contribute: its key when that is
\* non-empty, otherwise its id when that is non-empty
RECURSIVE KeyElseId(_)
KeyElseId(list) ==
    IF list = <<>> THEN <<>>
    ELSE (IF GetKeyTruthy(Head(list)) THEN <<Head(list).key>>
          ELSE IF GetIdTruthy(Head(list)) THEN <<Head(list).id>>
          ELSE <<>>) \o KeyElseId(Tail(list))

\* C22: each entry of categories[] contributes its key when that is non-empty
\* and otherwise its id; an entry with an empty key and a non-empty id
\* contributes its id.
C22_KeyElseId ==
    (d_pc = "done" /\ requests[Len(requests)].outcome = "ok") =>
        d_result.category_keys = KeyElseId(category_list)

(***************************************************************************)
(* Part 4: the category discovery of main (fetch_all_products.py, lines    *)
(* 31-102).  One step is one call of fetch_product_details or of           *)
(* fetch_products_by_category with the handling of what it returns.  The   *)
(* calls are taken by their results: Part 3 gives the records the detail   *)
(* fetcher can return (and that it can raise), Part 2 that the category    *)
(* fetcher returns a frame and does not raise.                             *)
(***************************************************************************)
max_iterations == 10

\* the "chain" world offers this many skus and keys, one more than the ceiling
\* can consume
ChainLength == 11

\* products in a frame returned for a category in the "free" world
MaxFrame == 2

FreeSkus == {1, 2, 3}

Worlds == {"free", "chain"}

\* what fetch_all_products returned (line 31); a page appended in part and
\* then retried leaves a sku twice in the frame
InitialProducts(w) == IF w = "free" THEN {<<>>, <<1>>, <<1, 2>>, <<1, 1>>} ELSE {<<1>>}

SeqsUpTo(S, n) == UNION {[1..k -> S] : k \in 0..n}

\* category_keys lists fetch_product_details builds in the free world: lists
\* CategoryKeys (Part 3) gives for categories[] of up to two entries, with and
\* without empty and whitespace-only keys
DetailKeyLists ==
    {<<>>, <<KeyOf(1)>>, <<KeyOf(2)>>, <<KeyOf(1), KeyOf(2)>>,
     <<<<>>, KeyOf(1)>>, <<<<" ">>, KeyOf(2)>>, <<<<" ">>>>}

DetailRecord(sku, keys) ==
    [sku |-> sku, description |-> "text", category_keys |-> keys, image_url |-> "url"]

\* in the chain world a detail record holds nothing, a known key or the next
\* key no record held before
ChainKeyLists(known) ==
    {<<>>, <<KeyOf(1)>>}
        \cup (IF Cardinality(known) < ChainLength
              THEN {<<KeyOf(Cardinality(known) + 1)>>} ELSE {})

\* fetch_product_details(sku) as main sees it: a record, or an exception
DetailOutcomes(w, sku, known) ==
    IF w = "free"
    THEN {[raised |-> TRUE, record |-> empty_result(sku)],
          [raised |-> FALSE, record |-> empty_result(sku)]}
            \cup {[raised |-> FALSE, record |-> DetailRecord(sku, keys)] :
                    keys \in DetailKeyLists}
    ELSE {[raised |-> FALSE, record |-> DetailRecord(sku, keys)] :
            keys \in ChainKeyLists(known)}

\* fetch_products_by_category(key) as main sees it: the skus of the frame
CategoryFrames(w, seen) ==
    IF w = "free"
    THEN SeqsUpTo(FreeSkus, MaxFrame)
    ELSE {<<>>} \cup (IF Cardinality(seen) < ChainLength
                      THEN {<<Cardinality(seen) + 1>>} ELSE {})

\* every key held by a sequence of detail records
KnownKeys(info) == UNION {Range(info[i].category_keys) : i \in 1..Len(info)}

\* k and str(k).strip() (product_fetcher.py, line 327)
ExtractFilter(k) == Truthy(k) /\ Truthy(Strip(k))

extract_category_keys_from_details(info) == {k \in KnownKeys(info) : ExtractFilter(k)}

HarvestFilterNoStrip(k) == Truthy(k)

\* if cat_key and str(cat_key).strip() (line 92)
HarvestFilter(k) == Truthy(k) /\ Truthy(Strip(k))

HarvestAny(k, fetched, discovered) == TRUE

\* if cat_key not in fetched_categories and cat_key not in discovered_categories
HarvestIsNew(k, fetched, discovered) == k \notin fetched /\ k \notin discovered

NewProductsUnfiltered(frame, seen) == frame

\* category_products_df[~category_products_df['sku'].isin(fetched_skus)]
NewProducts(frame, seen) == SelectSeq(frame, LAMBDA sku : sku \notin seen)

LoopContinuesNoCeiling(to_fetch, it) == to_fetch # {}

LoopContinuesToCeiling(to_fetch, it) == it < max_iterations

\* while categories_to_fetch and iteration < max_iterations
LoopContinues(to_fetch, it) == to_fetch # {} /\ it < max_iterations

\* the record holds exactly one key, valid and never seen before
BrandNewKey(keys, known) ==
    Len(keys) = 1 /\ ~IsBlankKey(keys[1]) /\ keys[1] \notin known

outsideDiscovery == <<fetchAllVars, historyVars, categoryVars, detailVars, walmartVars, searchVars>>

\* the variables of Step 4
step4Vars == <<category_detailed_info, full_df>>

\* pd.concat(frames, ignore_index=True)
RECURSIVE Concat(_)
Concat(frames) == IF frames = <<>> THEN <<>> ELSE Head(frames) \o Concat(Tail(frames))

\* drop_duplicates(subset=['sku'], keep='first')
RECURSIVE DropDuplicates(_)
DropDuplicates(skus) ==
    IF skus = <<>> THEN <<>>
    ELSE LET init == DropDuplicates(SubSeq(skus, 1, Len(skus) - 1))
         IN  IF skus[Len(skus)] \in Range(init) THEN init
             ELSE Append(init, skus[Len(skus)])

\* left.merge(right, on='sku', how='left'), by the skus of its rows: a left row
\* gives one row for every right row of its sku, and one row if there is none
RECURSIVE MergeSkus(_, _)
MergeSkus(left, right) ==
    IF left = <<>> THEN <<>>
    ELSE LET n == Cardinality({i \in 1..Len(right) : right[i].sku = Head(left)})
         IN  [i \in 1..Max(n, 1) |-> Head(left)] \o MergeSkus(Tail(left), right)

\* Step 2: one turn of the hydration loop (lines 37-39); all_products_df['sku']
\* raises KeyError when fetch_all_products returned a frame without rows
Hydrate ==
    /\ m_pc = "hydrate"
    /\ IF all_products = <<>>
       THEN /\ m_pc' = "raised"
            /\ UNCHANGED <<detailed_info, chain_ok, detail_calls>>
       ELSE LET sku == all_products[Len(detailed_info) + 1]
            IN  /\ detail_calls' = Append(detail_calls, sku)
                /\ \E out \in DetailOutcomes(world, sku, KnownKeys(detailed_info)) :
                  IF out.raised
                  THEN /\ m_pc' = "raised"
                       /\ UNCHANGED <<detailed_info, chain_ok>>
                  ELSE /\ detailed_info' = Append(detailed_info, out.record)
                       /\ chain_ok' = (chain_ok /\ BrandNewKey(out.record.category_keys,
                                                           KnownKeys(detailed_info)))
                       /\ m_pc' = IF Len(detailed_info) + 1 = Len(all_products)
                                  THEN "seed" ELSE "hydrate"
    /\ UNCHANGED <<world, all_products, discovered_categories, fetched_categories,
                   categories_to_fetch, new_categories, current_batch,
                   category_products_df, fetched_skus, all_category_products,
                   pending, iteration, harvest_log, all_known, blank_offered,
                   step4Vars, category_calls, outsideDiscovery>>

\* Step 3 up to the loop (lines 41-59)
Seed ==
    /\ m_pc = "seed"
    /\ discovered_categories' = extract_category_keys_from_details(detailed_info)
    /\ fetched_categories' = {}
    /\ all_category_products' = <<>>
    /\ fetched_skus' = Range(all_products)
    /\ categories_to_fetch' = extract_category_keys_from_details(detailed_info)
    /\ iteration' = 0
    /\ full_df' = MergeSkus(all_products, detailed_info)
    /\ m_pc' = "loop"
    /\ UNCHANGED <<world, all_products, detailed_info, new_categories, current_batch,
                   category_products_df, pending, harvest_log, all_known, chain_ok,
                   blank_offered, category_detailed_info, detail_calls,
                   category_calls, outsideDiscovery>>

\* the loop test holds: lines 61-67
BeginIteration ==
    /\ m_pc = "loop"
    /\ LoopContinues(categories_to_fetch, iteration)
    /\ iteration' = iteration + 1
    /\ new_categories' = {}
    /\ current_batch' = categories_to_fetch
    /\ categories_to_fetch' = {}
    /\ m_pc' = "batch"
    /\ UNCHANGED <<world, all_products, detailed_info, discovered_categories,
                   fetched_categories, category_products_df, fetched_skus,
                   all_category_products, pending, harvest_log, all_known, chain_ok,
                   blank_offered, step4Vars, detail_calls, category_calls, outsideDiscovery>>

\* the loop test fails: the loop is left for Step 4
ExitLoop ==
    /\ m_pc = "loop"
    /\ ~LoopContinues(categories_to_fetch, iteration)
    /\ m_pc' = "step4"
    /\ UNCHANGED <<world, all_products, detailed_info, discovered_categories,
                   fetched_categories, categories_to_fetch, new_categories,
                   current_batch, category_products_df, fetched_skus,
                   all_category_products, pending, iteration, harvest_log,
                   all_known, chain_ok, blank_offered, step4Vars, detail_calls, category_calls, outsideDiscovery>>

MarkOnlyLast(fetched, key) == {key}

\* fetched_categories.add(category_key) (line 72)
MarkFetched(fetched, key) == fetched \cup {key}

\* one key of current_batch (lines 69-84); list(categories_to_fetch) has the
\* order of a set, so any key not yet reached may be next
ProcessCategory ==
    /\ m_pc = "batch"
    /\ \E category_key \in current_batch :
         /\ current_batch' = current_batch \ {category_key}
         /\ IF category_key \in fetched_categories
            THEN UNCHANGED <<fetched_categories, category_products_df, fetched_skus,
                             all_category_products, pending, chain_ok, m_pc,
                             category_calls>>
            ELSE /\ fetched_categories' = MarkFetched(fetched_categories, category_key)
                 /\ category_calls' = Append(category_calls, category_key)
                 /\ \E frame \in CategoryFrames(world, fetched_skus) :
                      LET new_products == NewProducts(frame, fetched_skus)
                      IN  /\ category_products_df' = frame
                          /\ chain_ok' = (chain_ok /\ new_products # <<>>)
                          /\ IF new_products # <<>>
                             THEN /\ all_category_products' =
                                        Append(all_category_products, new_products)
                                  /\ fetched_skus' = fetched_skus \cup Range(new_products)
                                  /\ pending' = new_products
                                  /\ m_pc' = "details"
                             ELSE UNCHANGED <<all_category_products, fetched_skus,
                                              pending, m_pc>>
    /\ UNCHANGED <<world, all_products, detailed_info, discovered_categories,
                   categories_to_fetch, new_categories, iteration, harvest_log,
                   all_known, blank_offered, step4Vars, detail_calls, outsideDiscovery>>

\* one sku of new_products (lines 88-94)
HarvestDetail ==
    /\ m_pc = "details"
    /\ pending # <<>>
    /\ detail_calls' = Append(detail_calls, Head(pending))
    /\ \E out \in DetailOutcomes(world, Head(pending),
                                 discovered_categories \cup new_categories) :
         IF out.raised
         THEN /\ m_pc' = "raised"
              /\ UNCHANGED <<new_categories, pending, all_known, chain_ok,
                             blank_offered>>
         ELSE LET keys == out.record.category_keys
              IN  /\ new_categories' = new_categories \cup
                        {k \in Range(keys) :
                            /\ HarvestFilter(k)
                            /\ HarvestIsNew(k, fetched_categories, discovered_categories)}
                  /\ all_known' = (all_known /\ Range(keys) \subseteq discovered_categories)
                  /\ chain_ok' = (chain_ok /\ BrandNewKey(keys,
                                        discovered_categories \cup new_categories))
                  /\ blank_offered' =
                        (blank_offered \/ \E k \in Range(keys) : IsBlankKey(k))
                  /\ pending' = Tail(pending)
                  /\ m_pc' = IF Tail(pending) = <<>> THEN "batch" ELSE "details"
    /\ UNCHANGED <<world, all_products, detailed_info, discovered_categories,
                   fetched_categories, categories_to_fetch, current_batch,
                   category_products_df, fetched_skus, all_category_products,
                   iteration, harvest_log, step4Vars, category_calls, outsideDiscovery>>

\* after the batch (lines 97-102)
EndIteration ==
    /\ m_pc = "batch"
    /\ current_batch = {}
    /\ IF new_categories # {}
       THEN /\ discovered_categories' = discovered_categories \cup new_categories
            /\ categories_to_fetch' = categories_to_fetch \cup new_categories
       ELSE UNCHANGED <<discovered_categories, categories_to_fetch>>
    /\ harvest_log' = Append(harvest_log, Cardinality(new_categories))
    /\ m_pc' = "loop"
    /\ UNCHANGED <<world, all_products, detailed_info, fetched_categories,
                   new_categories, current_batch, category_products_df, fetched_skus,
                   all_category_products, pending, iteration, all_known, chain_ok,
                   blank_offered, step4Vars, detail_calls, category_calls, outsideDiscovery>>

\* Step 4 up to the hydration of the category products (lines 104-114, 126-127)
Combine ==
    /\ m_pc = "step4"
    /\ IF all_category_products # <<>>
       THEN /\ category_products_df' = DropDuplicates(Concat(all_category_products))
            /\ category_detailed_info' = <<>>
            /\ m_pc' = "rehydrate"
       ELSE /\ m_pc' = "done"
            /\ UNCHANGED <<category_products_df, category_detailed_info>>
    /\ UNCHANGED <<world, all_products, detailed_info, discovered_categories,
                   fetched_categories, categories_to_fetch, new_categories,
                   current_batch, fetched_skus, all_category_products, pending,
                   iteration, harvest_log, all_known, chain_ok, blank_offered,
                   full_df, detail_calls, category_calls, outsideDiscovery>>

\* one turn of the hydration of the category products (lines 115-117)
Rehydrate ==
    /\ m_pc = "rehydrate"
    /\ LET sku == category_products_df[Len(category_detailed_info) + 1]
       IN  /\ detail_calls' = Append(detail_calls, sku)
           /\ \E out \in DetailOutcomes(world, sku, discovered_categories) :
                 IF out.raised
                 THEN /\ m_pc' = "raised"
                      /\ UNCHANGED category_detailed_info
                 ELSE /\ category_detailed_info' =
                            Append(category_detailed_info, out.record)
                      /\ m_pc' = IF Len(category_detailed_info) + 1 =
                                        Len(category_products_df)
                                 THEN "combine" ELSE "rehydrate"
    /\ UNCHANGED <<world, all_products, detailed_info, discovered_categories,
                   fetched_categories, categories_to_fetch, new_categories,
                   current_batch, category_products_df, fetched_skus,
                   all_category_products, pending, iteration, harvest_log,
                   all_known, chain_ok, blank_offered, full_df, category_calls, outsideDiscovery>>

\* the merge, the concatenation with the initial rows and the final
\* deduplication (lines 119-125)
Finish ==
    /\ m_pc = "combine"
    /\ full_df' = DropDuplicates(
                      full_df \o MergeSkus(category_products_df, category_detailed_info))
    /\ m_pc' = "done"
    /\ UNCHANGED <<world, all_products, detailed_info, discovered_categories,
                   fetched_categories, categories_to_fetch, new_categories,
                   current_batch, category_products_df, fetched_skus,
                   all_category_products, pending, iteration, harvest_log,
                   all_known, chain_ok, blank_offered, category_detailed_info,
                   detail_calls, category_calls, outsideDiscovery>>

InitDiscovery ==
    /\ FetchAllIdle
    /\ CategoryIdle
    /\ DetailIdle
    /\ WalmartIdle
    /\ SearchIdle
    /\ requests = <<>>
    /\ sleeps = <<>>
    /\ m_pc = "hydrate"
    /\ world \in Worlds
    /\ all_products \in InitialProducts(world)
    /\ detailed_info = <<>>
    /\ discovered_categories = {}
    /\ fetched_categories = {}
    /\ categories_to_fetch = {}
    /\ new_categories = {}
    /\ current_batch = {}
    /\ category_products_df = <<>>
    /\ fetched_skus = {}
    /\ all_category_products = <<>>
    /\ pending = <<>>
    /\ iteration = 0
    /\ harvest_log = <<>>
    /\ all_known = TRUE
    /\ chain_ok = TRUE
    /\ blank_offered = FALSE
    /\ category_detailed_info = <<>>
    /\ full_df = <<>>
    /\ detail_calls = <<>>
    /\ category_calls = <<>>

NextDiscovery ==
    \/ Hydrate
    \/ Seed
    \/ BeginIteration
    \/ ExitLoop
    \/ ProcessCategory
    \/ HarvestDetail
    \/ EndIteration
    \/ Combine
    \/ Rehydrate
    \/ Finish

\* Steps 2 to 4 of main
SpecDiscovery == InitDiscovery /\ [][NextDiscovery]_vars

LoopStates == {"loop", "batch", "details", "step4"}

Last(seq) == seq[Len(seq)]

\* C14: the discovery loop runs at most 10 iterations whatever the server
\* answers; when every detail fetch yielded one brand-new key and every category
\* fetch a new product, the loop is left after exactly 10 iterations.
C14_IterationCeiling ==
    /\ iteration <= max_iterations
    /\ (m_pc = "step4" /\ chain_ok) => iteration = max_iterations

\* the ceiling ended a chain that had not converged
C14_Witness ==
    /\ m_pc = "step4"
    /\ chain_ok
    /\ iteration = max_iterations
    /\ categories_to_fetch # {}

\* an iteration that harvested no new key is the last one: the loop test that
\* follows it fails
HarvestlessIterationIsLast ==
    \A i \in 1..Len(harvest_log) :
        harvest_log[i] = 0 =>
            /\ i = Len(harvest_log)
            /\ m_pc \notin {"batch", "details"}
            /\ categories_to_fetch = {}

\* C15: the loop ends with the first iteration that harvested no new key; when
\* every detail fetch of the loop returned only keys already discovered, the
\* loop ran exactly one iteration if the seed set held a key and none if the
\* seed set was empty.
C15_FixedPointTermination ==
    /\ HarvestlessIterationIsLast
    /\ (m_pc = "step4" /\ all_known) =>
          iteration = IF discovered_categories = {} THEN 0 ELSE 1

\* a category gave a new product whose record held only known keys
C15_Witness ==
    /\ m_pc = "step4"
    /\ all_known
    /\ iteration = 1
    /\ harvest_log = <<0>>
    /\ all_category_products # <<>>

\* C15 as stated: with only known keys returned, exactly one iteration
C15_FixedPointAfterOneIteration ==
    /\ HarvestlessIterationIsLast
    /\ (m_pc = "step4" /\ all_known) => iteration = 1

\* C16: at the start of every iteration fetched_categories and
\* categories_to_fetch are disjoint and categories_to_fetch is within
\* discovered_categories minus fetched_categories; fetched_categories is always
\* within discovered_categories.
C16_FrontierInvariant ==
    /\ m_pc = "loop" =>
          /\ fetched_categories \cap categories_to_fetch = {}
          /\ categories_to_fetch \subseteq discovered_categories \ fetched_categories
    /\ fetched_categories \subseteq discovered_categories

\* a later iteration starts with fetched keys and newly queued ones
C16_Witness ==
    /\ m_pc = "loop"
    /\ iteration >= 1
    /\ fetched_categories # {}
    /\ categories_to_fetch # {}

\* C17: a product whose sku is in fetched_skus when its category is fetched is
\* not added to the category products; fetched_skus only grows and holds the
\* skus of the initial products and of every product accepted so far.
C17_SeenSkusFiltered ==
    /\ [](m_pc \in LoopStates =>
            /\ Range(all_products) \subseteq fetched_skus
            /\ \A i \in 1..Len(all_category_products) :
                  /\ Range(all_category_products[i]) \subseteq fetched_skus
                  /\ Range(all_category_products[i]) \cap Range(all_products) = {}
                  /\ \A j \in 1..(i - 1) :
                        Range(all_category_products[i])
                            \cap Range(all_category_products[j]) = {})
    /\ [][/\ fetched_skus \subseteq fetched_skus'
          /\ all_category_products' # all_category_products =>
                Range(Last(all_category_products')) \cap fetched_skus = {}]_vars

\* a frame held a seen sku and a new one: only the new one was accepted
C17_Witness ==
    /\ m_pc \in LoopStates
    /\ Len(category_products_df) = 2
    /\ category_products_df[1] \in Range(all_products)
    /\ all_category_products = <<<<category_products_df[2]>>>>

\* C18: discovered_categories, categories_to_fetch and fetched_categories never
\* hold an empty or whitespace-only key, neither from the seeding by
\* extract_category_keys_from_details nor from the harvest in the loop.
C18_NoBlankCategoryKey ==
    \A k \in discovered_categories \cup categories_to_fetch \cup fetched_categories
                \cup new_categories \cup current_batch :
        ~IsBlankKey(k)

\* blank keys came with the initial records and with a record of the loop, next
\* to keys that were kept
C18_Witness ==
    /\ m_pc = "step4"
    /\ \E i \in 1..Len(detailed_info) :
          \E k \in Range(detailed_info[i].category_keys) : IsBlankKey(k)
    /\ blank_offered
    /\ Len(harvest_log) >= 2
    /\ harvest_log[1] > 0

\* how often fetch_product_details was called for sku
CallsOf(sku) == Cardinality({i \in 1..Len(detail_calls) : detail_calls[i] = sku})

\* C30: over the whole run (hydration of the initial products, discovery loop,
\* final combination) fetch_product_details is called at most once for every
\* sku.
C30_HydratedAtMostOnce ==
    \A i \in 1..Len(detail_calls) : CallsOf(detail_calls[i]) <= 1

\* C32: fetch_products_by_category is called at most once per category key
\* over the whole run and only for keys of discovered_categories; the key of a
\* call is in fetched_categories from the call on and is never removed.
C32_CategoryFetchedOnce ==
    /\ [](/\ \A i, j \in 1..Len(category_calls) :
                category_calls[i] = category_calls[j] => i = j
          /\ Range(category_calls) \subseteq discovered_categories
          /\ Range(category_calls) = fetched_categories)
    /\ [][fetched_categories \subseteq fetched_categories']_vars

\* two keys were fetched, one of them discovered inside the loop
C32_Witness ==
    /\ m_pc = "step4"
    /\ iteration >= 2
    /\ Len(category_calls) >= 2
    /\ category_calls[1] # category_calls[2]

\* C33: when the discovery loop is left, the keys of discovered_categories that
\* were not fetched are exactly those of categories_to_fetch, and
\* categories_to_fetch is empty unless the loop stopped at the ceiling of 10
\* iterations: after a fixed point every discovered key was fetched.
C33_FetchedAtLoopExit ==
    m_pc = "step4" =>
        /\ fetched_categories \cup categories_to_fetch = discovered_categories
        /\ fetched_categories \cap categories_to_fetch = {}
        /\ categories_to_fetch # {} => iteration = max_iterations

\* the ceiling stopped the loop with a discovered key still to fetch
C33_Witness ==
    /\ m_pc = "step4"
    /\ iteration = max_iterations
    /\ categories_to_fetch # {}
    /\ fetched_categories # {}

\* C33 as stated: every discovered key was fetched when the loop is left, also
\* at the ceiling
C33_AllFetchedAlsoAtCeiling ==
    m_pc = "step4" =>
        /\ fetched_categories = discovered_categories
        /\ categories_to_fetch = {}

\* C34: the final combined record set holds each sku at most once, whatever
\* the fetches returned: also when no category product was found and when the
\* initial product list or the hydrated detail list repeats a sku.
C34_FinalSkusUnique ==
    m_pc = "done" =>
        \A i, j \in 1..Len(full_df) : full_df[i] = full_df[j] => i = j

(***************************************************************************)
(* Part 5: the Walmart fetch_product_details and parse_product_page_html   *)
(* (walmart/product_fetcher.py, lines 45-475).  The parser reads the       *)
(* document through regular expressions, one method after the other; a     *)
(* step of the model is one method, and the document is taken by what that *)
(* method's searches find in it.  Fields of product_data that no statement  *)
(* below is about (specifications, ingredients, directions, ...) are left  *)
(* out.                                                                    *)
(***************************************************************************)
\* JSON-LD blocks in a document
MaxBlocks == 2

\* strings float() and int() accept
NumericTexts == {"1", "2", "3", "10", "20", "30", "100", "200", "300"}

\* bool(x) of a JSON value
JTruthy(x) == x.t \notin {"null", "absent"} /\ x.v # "" /\ ~(x.t = "num" /\ x.v = "0")

\* float(x) and int(x): a number, ValueError for a string that is no number,
\* TypeError for None
ToNumber(x) ==
    IF x.t = "num" THEN [exc |-> "none", value |-> x]
    ELSE IF x.t = "str"
    THEN IF x.v \in NumericTexts THEN [exc |-> "none", value |-> Num(x.v)]
         ELSE [exc |-> "ValueError", value |-> None]
    ELSE [exc |-> "TypeError", value |-> None]

\* the answers to session.get(url, params=params, timeout=15) (line 67)
WalmartResponses == {"transport", "412", "500", "200"}

\* except requests.exceptions.RequestException (line 79)
WalmartCatches(exc) == IsInstance(exc, "RequestException")

\* fetch_product_details up to the call of the parser (lines 56-77)
WalmartFetch ==
    /\ w_pc = "fetch"
    /\ \E resp \in WalmartResponses :
         LET exc == IF resp = "transport" THEN "ConnectionError"
                    ELSE IF resp = "500" THEN "HTTPError" ELSE "none"
         IN  /\ requests' = Append(requests,
                     Request(0, 0, -1, IF resp = "412" THEN "blocked"
                                       ELSE IF exc # "none" THEN "error" ELSE "ok"))
             /\ IF resp = "412"
                THEN /\ w_result' = EmptyDict
                     /\ w_pc' = "done"
                     /\ UNCHANGED product_data
                ELSE IF exc # "none"
                THEN /\ w_result' = (IF WalmartCatches(exc) THEN EmptyDict ELSE w_result)
                     /\ w_pc' = IF WalmartCatches(exc) THEN "done" ELSE "raised"
                     /\ UNCHANGED product_data
                ELSE /\ product_data' = NewProductData(item_id)
                     /\ w_pc' = "next_data"
                     /\ UNCHANGED w_result
    /\ UNCHANGED <<item_id, name_sources, ld_index, image_matches, fetchAllVars,
                   sleeps, categoryVars, detailVars, discoveryVars, searchVars>>

\* the __NEXT_DATA__ script of the document: none, one json.loads rejects, one
\* that is no object, one with null on the way to the product, or an object
\* whose product has a name, a priceInfo (absent, an object with a price, or a
\* string), images, a description and reviews
NextBlob(kind, name, price_info, description, reviews, images) ==
    [kind |-> kind, name |-> name, price_info |-> price_info,
     description |-> description, reviews |-> reviews, images |-> images]

NextDataShapes ==
    {NextBlob(kind, None, "absent", None, FALSE, <<>>) :
        kind \in {"absent", "undecodable", "nonobject", "null_path"}}
        \cup {NextBlob("object", name, price_info, description, reviews, images) :
                name \in {None, Str("next_name")},
                price_info \in {"absent", "object", "string"},
                description \in {None, Str("next_description")},
                reviews \in BOOLEAN,
                images \in {<<>>, <<"u1">>}}

\* the exception Method 1 runs into
NextDataException(blob) ==
    CASE blob.kind = "undecodable" -> "JSONDecodeError"
      [] blob.kind \in {"nonobject", "null_path"} -> "AttributeError"
      [] blob.kind = "object" /\ blob.price_info = "string" -> "AttributeError"
      [] OTHER -> "none"

\* except (json.JSONDecodeError, KeyError, AttributeError) (line 242)
NextDataCatches(exc) == exc \in {"JSONDecodeError", "KeyError", "AttributeError"}

\* Method 1 (lines 121-245): what was assigned before an exception stays
NextDataFill(pd, blob) ==
    IF blob.kind # "object" THEN pd
    ELSE IF blob.price_info = "string" THEN [pd EXCEPT !.name = blob.name]
    ELSE [pd EXCEPT !.name = blob.name,
                    !.price = IF blob.price_info = "object" THEN Num("10") ELSE pd.price,
                    !.image_urls = blob.images,
                    !.description = blob.description,
                    !.rating = IF blob.reviews THEN Num("1") ELSE None,
                    !.review_count = IF blob.reviews THEN Num("100") ELSE None]

NextData ==
    /\ w_pc = "next_data"
    /\ \E blob \in NextDataShapes :
         /\ product_data' = NextDataFill(product_data, blob)
         /\ name_sources' = IF blob.kind = "object" /\ JTruthy(blob.name)
                            THEN {"next_data"} ELSE {}
         /\ w_pc' = IF NextDataException(blob) = "none"
                       \/ NextDataCatches(NextDataException(blob))
                    THEN "title" ELSE "raised"
    /\ UNCHANGED <<item_id, w_result, ld_index, image_matches, fetchAllVars,
                   historyVars, categoryVars, detailVars, discoveryVars, searchVars>>

\* the <title> of the document: its text before the site suffix, and whether
\* the suffix is there
Titles ==
    {[present |-> FALSE, text |-> "", suffix |-> FALSE],
     [present |-> TRUE, text |-> "title_name", suffix |-> FALSE],
     [present |-> TRUE, text |-> "title_name", suffix |-> TRUE]}

\* title.replace(' - Walmart.com', '').strip()
TitleName(title) == Str(title.text)

\* Method 2 (lines 247-253)
Title ==
    /\ w_pc = "title"
    /\ \E title \in Titles :
         /\ product_data' = IF ~JTruthy(product_data.name) /\ title.present
                            THEN [product_data EXCEPT !.name = TitleName(title)]
                            ELSE product_data
         /\ name_sources' = IF title.present THEN name_sources \cup {"title"}
                            ELSE name_sources
    /\ w_pc' = "regex"
    /\ UNCHANGED <<item_id, w_result, ld_index, image_matches, fetchAllVars,
                   historyVars, categoryVars, detailVars, discoveryVars, searchVars>>

\* what the price, rating, review and description patterns capture
RegexMatches ==
    [price : {Absent, Str("20"), Str(".")},
     rating : {Absent, Str("2")},
     reviews : {Absent, Str("200")},
     description : {Absent, Str("regex_description")}]

\* the price sweep (lines 255-270): a capture float() rejects is passed over
PriceSweep(price, match) ==
    IF match.t # "absent" /\ ToNumber(match).exc = "none"
    THEN ToNumber(match).value ELSE price

\* the regex sweeps for price, rating, review count and description
\* (lines 255-302)
Regex ==
    /\ w_pc = "regex"
    /\ \E m \in RegexMatches :
         product_data' =
            [product_data EXCEPT
                !.price = PriceSweep(@, m.price),
                !.rating = IF m.rating.t # "absent" THEN ToNumber(m.rating).value ELSE @,
                !.review_count =
                    IF m.reviews.t # "absent" THEN ToNumber(m.reviews).value ELSE @,
                !.description = IF m.description.t # "absent" THEN m.description ELSE @]
    /\ w_pc' = "json_ld"
    /\ UNCHANGED <<item_id, w_result, name_sources, ld_index, image_matches,
                   fetchAllVars, historyVars, categoryVars, detailVars, discoveryVars, searchVars>>

\* the aggregateRating of a JSON-LD block: absent, an object, a number or null
AggregateRating(t, ratingValue, reviewCount) ==
    [t |-> t, ratingValue |-> ratingValue, reviewCount |-> reviewCount]

RatingShapes ==
    {AggregateRating("absent", Absent, Absent),
     AggregateRating("obj", Num("3"), Num("300")),
     AggregateRating("obj", Str("3"), Str("300")),
     AggregateRating("obj", Str("n/a"), Num("300")),
     AggregateRating("obj", None, Absent),
     AggregateRating("obj", Absent, Absent),
     AggregateRating("num", Absent, Absent),
     AggregateRating("null", Absent, Absent)}

\* the offers of a JSON-LD block: absent, an object, a list of len objects
\* (price is that of the first), or null
Offers(t, len, price) == [t |-> t, len |-> len, price |-> price]

OffersShapes ==
    {Offers("absent", 0, Absent),
     Offers("obj", 0, Num("30")),
     Offers("obj", 0, Str("30")),
     Offers("obj", 0, Str("n/a")),
     Offers("obj", 0, None),
     Offers("obj", 0, Absent),
     Offers("list", 1, Num("30")),
     Offers("list", 0, Absent),
     Offers("null", 0, Absent)}

\* one <script type="application/ld+json"> block: one json.loads rejects, one
\* that is no object, an object of another @type, or a Product
JsonLdBlocks ==
    {[kind |-> kind, has_name |-> FALSE, has_description |-> FALSE,
      rating |-> AggregateRating("absent", Absent, Absent),
      offers |-> Offers("absent", 0, Absent)] :
        kind \in {"undecodable", "nonobject", "other"}}
        \cup [kind : {"product"}, has_name : BOOLEAN, has_description : BOOLEAN,
              rating : RatingShapes, offers : OffersShapes]

Filled(pd, exc) == [pd |-> pd, exc |-> exc]

\* `key in x` for a string key: a key test on a dict, a membership test on a
\* list, TypeError on a number or None
InRaises(t) == t \notin {"obj", "list", "str"}

\* lines 318-323: not guarded by `not product_data[...]`
RatingFill(pd, r) ==
    IF r.t = "absent" THEN Filled(pd, "none")
    ELSE IF InRaises(r.t) THEN Filled(pd, "TypeError")
    ELSE IF r.t # "obj" THEN Filled(pd, "none")
    ELSE LET value == ToNumber(r.ratingValue)
             count == ToNumber(r.reviewCount)
             rated == IF r.ratingValue.t = "absent" THEN Filled(pd, "none")
                      ELSE IF value.exc # "none" THEN Filled(pd, value.exc)
                      ELSE Filled([pd EXCEPT !.rating = value.value], "none")
         IN  IF rated.exc # "none" \/ r.reviewCount.t = "absent" THEN rated
             ELSE IF count.exc # "none" THEN Filled(rated.pd, count.exc)
             ELSE Filled([rated.pd EXCEPT !.review_count = count.value], "none")

\* lines 324-332: float(offer['price']) has its own except (ValueError, TypeError)
OffersFill(pd, o) ==
    IF o.t = "absent" THEN Filled(pd, "none")
    ELSE IF o.t = "list" /\ o.len = 0 THEN Filled(pd, "none")
    ELSE IF InRaises(o.t) THEN Filled(pd, "TypeError")
    ELSE IF o.price.t = "absent" \/ ToNumber(o.price).exc # "none" THEN Filled(pd, "none")
    ELSE Filled([pd EXCEPT !.price = ToNumber(o.price).value], "none")

\* the body of the try for one block (lines 310-332)
JsonLdFill(pd, block) ==
    IF block.kind = "undecodable" THEN Filled(pd, "JSONDecodeError")
    ELSE IF block.kind # "product" THEN Filled(pd, "none")
    ELSE LET named == IF block.has_name /\ ~JTruthy(pd.name)
                      THEN [pd EXCEPT !.name = Str("ld_name")] ELSE pd
             described == IF block.has_description /\ ~JTruthy(named.description)
                          THEN [named EXCEPT !.description = Str("ld_description")]
                          ELSE named
             rated == RatingFill(described, block.rating)
         IN  IF rated.exc # "none" THEN rated ELSE OffersFill(rated.pd, block.offers)

\* except (json.JSONDecodeError, KeyError, ValueError) (line 333)
JsonLdCatches(exc) == exc \in {"JSONDecodeError", "KeyError", "ValueError"}

\* one turn of `for json_ld_str in json_ld_matches` (lines 308-334)
JsonLd ==
    /\ w_pc = "json_ld"
    /\ ld_index < MaxBlocks
    /\ \E block \in JsonLdBlocks :
         LET r == JsonLdFill(product_data, block)
         IN  /\ product_data' = r.pd
             /\ name_sources' = IF block.kind = "product" /\ block.has_name
                                THEN name_sources \cup {"json_ld"} ELSE name_sources
             /\ w_pc' = IF r.exc = "none" \/ JsonLdCatches(r.exc)
                        THEN "json_ld" ELSE "raised"
    /\ ld_index' = ld_index + 1
    /\ UNCHANGED <<item_id, w_result, image_matches, fetchAllVars, historyVars,
                   categoryVars, detailVars, discoveryVars, searchVars>>

\* what the src pattern finds
ImageMatchLists == {<<>>, <<"u1">>, <<"u1", "u1">>, <<"u1", "u2">>}

\* what the src, data-src and url() patterns find (lines 451-455)
ImageMatches ==
    {<<src, data_src, url>> :
        src \in ImageMatchLists, data_src \in {<<>>, <<"u1">>}, url \in {<<>>, <<"u1">>}}

ImageNeverSeen(img_url, seen_images) == FALSE

\* if img_url not in seen_images (line 461)
ImageSeen(img_url, seen_images) == img_url \in seen_images

\* the loops over the patterns and their matches (lines 458-463)
RECURSIVE SweepImages(_, _, _)
SweepImages(image_urls, seen_images, matches) ==
    IF matches = <<>> THEN image_urls
    ELSE IF ImageSeen(Head(matches), seen_images)
    THEN SweepImages(image_urls, seen_images, Tail(matches))
    ELSE SweepImages(Append(image_urls, Head(matches)),
                     seen_images \cup {Head(matches)}, Tail(matches))

\* after the last JSON-LD block: the image sweep with seen_images = set(), and
\* the return of product_data through fetch_product_details
\* (lines 449-463, 486, 77)
Images ==
    /\ w_pc = "json_ld"
    /\ \E found \in ImageMatches :
         /\ image_matches' = found
         /\ product_data' =
               [product_data EXCEPT
                   !.image_urls = SweepImages(@, {}, found[1] \o found[2] \o found[3])]
         /\ w_result' =
               [product_data EXCEPT
                   !.image_urls = SweepImages(@, {}, found[1] \o found[2] \o found[3])]
    /\ w_pc' = "done"
    /\ UNCHANGED <<item_id, name_sources, ld_index, fetchAllVars, historyVars,
                   categoryVars, detailVars, discoveryVars, searchVars>>

ItemIds == {1, 2}

InitWalmart ==
    /\ FetchAllIdle
    /\ CategoryIdle
    /\ DetailIdle
    /\ DiscoveryIdle
    /\ SearchIdle
    /\ requests = <<>>
    /\ sleeps = <<>>
    /\ w_pc = "fetch"
    /\ item_id \in ItemIds
    /\ product_data = NewProductData(0)
    /\ w_result = EmptyDict
    /\ name_sources = {}
    /\ ld_index = 0
    /\ image_matches = <<>>

NextWalmart ==
    \/ WalmartFetch
    \/ NextData
    \/ Title
    \/ Regex
    \/ JsonLd
    \/ Images

\* one call of the Walmart fetch_product_details
SpecWalmart == InitWalmart /\ [][NextWalmart]_vars

\* the page was fetched and handed to parse_product_page_html
Parsing == requests # <<>> /\ requests[1].outcome = "ok"

\* C23: the Walmart fetch_product_details does not raise on a blocked (412)
\* response or a transport error, and the record it returns carries the
\* requested item id.
C23_PlaceholderCarriesItemId ==
    (requests # <<>> /\ requests[1].outcome \in {"blocked", "error"}) =>
        /\ w_pc = "done"
        /\ "item_id" \in DOMAIN w_result
        /\ w_result.item_id = item_id

\* C24: the regex price sweep does not overwrite a price an earlier step has
\* set: with a price from __NEXT_DATA__ and a matching price pattern the price
\* stays the structured-data value.
C24_RegexKeepsStructuredPrice ==
    [][(w_pc = "regex" /\ JTruthy(product_data.price)) =>
            product_data'.price = product_data.price]_vars

\* C25: a JSON-LD Product block fills name, description, rating, review count
\* and price only when the field is still empty: a value set before the block
\* is not replaced by the block's value.
C25_JsonLdFillsOnlyEmptyFields ==
    [][(w_pc = "json_ld" /\ ld_index' = ld_index + 1) =>
            /\ JTruthy(product_data.name) => product_data'.name = product_data.name
            /\ JTruthy(product_data.description) =>
                  product_data'.description = product_data.description
            /\ JTruthy(product_data.rating) => product_data'.rating = product_data.rating
            /\ JTruthy(product_data.review_count) =>
                  product_data'.review_count = product_data.review_count
            /\ JTruthy(product_data.price) => product_data'.price = product_data.price]_vars

\* C26: the name comes from __NEXT_DATA__, else from a JSON-LD Product block,
\* else from the <title>: the title's name is returned only when neither of the
\* others held a name, and a document with a JSON-LD name and a <title> but no
\* __NEXT_DATA__ name gives the JSON-LD name.
C26_NamePrecedence ==
    (Parsing /\ w_pc = "done") =>
        /\ w_result.name = Str("title_name") => name_sources = {"title"}
        /\ ("next_data" \notin name_sources /\ "json_ld" \in name_sources) =>
              w_result.name = Str("ld_name")

\* C27: parse_product_page_html never raises, whatever the shape of the
\* __NEXT_DATA__ blob and of the JSON-LD blocks: a parse that was started ends
\* with a returned record.
C27_ParserNeverRaises ==
    Parsing => w_pc # "raised"

Count(seq, x) == Cardinality({i \in 1..Len(seq) : seq[i] = x})

\* C28: the image sweep adds every URL its patterns found to image_urls exactly
\* once, however many patterns found it and however often, and adds nothing
\* else.
C28_SweepAddsEachUrlOnce ==
    [][(w_pc = "json_ld" /\ w_pc' = "done") =>
            \A url \in {"u1", "u2"} :
                Count(product_data'.image_urls, url) =
                    Count(product_data.image_urls, url)
                      + (IF \E i \in 1..3 : url \in Range(image_matches'[i])
                         THEN 1 ELSE 0)]_vars

\* u1 was found twice by the src pattern and once by the data-src pattern
C28_Witness ==
    /\ w_pc = "done"
    /\ Parsing
    /\ image_matches = <<<<"u1", "u1">>, <<"u1">>, <<>>>>
    /\ product_data.image_urls = <<"u1">>

\* C38: the image_urls list parse_product_page_html returns holds every URL at
\* most once, also when the __NEXT_DATA__ image list and an image pattern both
\* supply the URL.
C38_ImageUrlsUnique ==
    (Parsing /\ w_pc = "done") =>
        \A url \in Range(w_result.image_urls) : Count(w_result.image_urls, url) = 1

(***************************************************************************)
(* Part 6: the Walmart fetch_products_by_search and parse_search_page_html *)
(* (src/src/walmart/product_fetcher.py, lines 489-655).  One step is one   *)
(* turn of the while loop: the request of a search page and the parse of   *)
(* its document.  A document is what the patterns of the parser find in    *)
(* it: the item ids of its product links, the usItemId occurrences outside *)
(* script objects, and the JSON objects of its script tags.  Of an entry   *)
(* of the result the model keeps item_id.                                  *)
(***************************************************************************)
\* JSON objects in the script tags of one document
MaxObjects == 2

\* one JSON object the json_pattern finds (line 573): it holds "itemId" or
\* "usItemId"
ScriptObject(decodable, itemId, id, usItemId) ==
    [decodable |-> decodable, itemId |-> itemId, id |-> id, usItemId |-> usItemId]

ObjectShapes ==
    {ScriptObject(FALSE, Str("1"), Absent, Absent),
     ScriptObject(TRUE, Str("1"), Absent, Absent),
     ScriptObject(TRUE, Num("1"), Absent, Absent),
     ScriptObject(TRUE, Str("3"), Str("1"), Absent),
     ScriptObject(TRUE, Absent, Absent, Str("2")),
     ScriptObject(TRUE, Absent, Str("1"), Str("A4")),
     ScriptObject(TRUE, Str(""), Absent, None),
     ScriptObject(TRUE, Str(""), Absent, Absent)}

SearchDocuments ==
    [links : {<<>>, <<"1">>, <<"1", "1">>, <<"1", "2">>},
     loose : {<<>>, <<"1">>, <<"2">>},
     objects : SeqsUpTo(ObjectShapes, MaxObjects)]

\* str(x)
PyStr(x) == IF x.t = "null" THEN "None" ELSE x.v

\* a or b
PyOr(a, b) == IF JTruthy(a) THEN a ELSE b

\* d.get(key): None for a key that is not there
Get(x) == IF x.t = "absent" THEN None ELSE x

\* the group (\d+) of us_item_id_pattern on the usItemId of a script object:
\* the pattern needs a digit right after the optional quote
UsItemIdDigits(obj) ==
    IF obj.usItemId.t \in {"num", "str"} /\ obj.usItemId.v \in NumericTexts
    THEN <<obj.usItemId.v>> ELSE <<>>

\* re.findall(us_item_id_pattern, html_content) (lines 551-552): the pattern
\* runs over the whole document, script tags included
RECURSIVE ObjectUsItemIds(_)
ObjectUsItemIds(objects) ==
    IF objects = <<>> THEN <<>>
    ELSE UsItemIdDigits(Head(objects)) \o ObjectUsItemIds(Tail(objects))

UsItemIds(doc) == doc.loose \o ObjectUsItemIds(doc.objects)

\* products and seen_ids
Extracted(prods, seen) == [products |-> prods, seen_ids |-> seen]

\* item_id in seen_ids (lines 537, 555, 578)
Seen(id, seen_ids) == id \in seen_ids

\* Methods 1 and 2 (lines 536-559): an entry for every id not seen before
RECURSIVE ExtractIds(_, _)
ExtractIds(acc, ids) ==
    IF ids = <<>> THEN acc
    ELSE IF Seen(Head(ids), acc.seen_ids) THEN ExtractIds(acc, Tail(ids))
    ELSE ExtractIds(Extracted(Append(acc.products, [item_id |-> Str(Head(ids))]),
                              acc.seen_ids \cup {Head(ids)}),
                    Tail(ids))

\* extract_product_data_from_html(data) for a dict (lines 499-508): item_id is
\* itemId or id or usItemId
extract_product_data_from_html(data) ==
    [item_id |-> PyOr(Get(data.itemId), PyOr(Get(data.id), Get(data.usItemId)))]

\* str(data.get('itemId') or data.get('usItemId', '')) (line 577)
ObjectKey(data) ==
    PyStr(PyOr(Get(data.itemId),
               IF data.usItemId.t = "absent" THEN Str("") ELSE data.usItemId))

\* Method 3 (lines 562-582): an object json.loads rejects is passed over
RECURSIVE ExtractObjects(_, _)
ExtractObjects(acc, objects) ==
    IF objects = <<>> THEN acc
    ELSE LET data == Head(objects)
         IN  IF data.decodable /\ ObjectKey(data) # ""
                /\ ~Seen(ObjectKey(data), acc.seen_ids)
             THEN ExtractObjects(
                     Extracted(Append(acc.products, extract_product_data_from_html(data)),
                               acc.seen_ids \cup {ObjectKey(data)}),
                     Tail(objects))
             ELSE ExtractObjects(acc, Tail(objects))

\* parse_search_page_html(html_content) (lines 523-586)
parse_search_page_html(doc) ==
    ExtractObjects(
        ExtractIds(ExtractIds(Extracted(<<>>, {}), doc.links), UsItemIds(doc)),
        doc.objects).products

\* the max_products arguments
SearchMaxProducts == {-1, 0, 1, 2, 3}

\* the answers to session.get(url, params=params, timeout=15) (line 618)
SearchResponses == {"transport", "412", "500", "200"}

\* except requests.exceptions.RequestException (line 645)
SearchCatches(exc) == IsInstance(exc, "RequestException")

SearchLoopForever(prods, m) == TRUE

\* while len(products) < max_products (line 609)
SearchLoopTest(prods, m) == Len(prods) < m

\* one turn of the while loop (lines 609-647)
SearchPage ==
    /\ s_pc = "loop"
    /\ SearchLoopTest(s_products, s_max_products)
    /\ \E resp \in SearchResponses :
         LET exc == IF resp = "transport" THEN "ConnectionError"
                    ELSE IF resp = "500" THEN "HTTPError" ELSE "none"
         IN  /\ requests' = Append(requests,
                     Request(1, s_page, 0, IF resp = "412" THEN "blocked"
                                           ELSE IF exc # "none" THEN "error" ELSE "ok"))
             /\ IF resp = "412" \/ exc # "none"
                THEN /\ s_pc' = IF resp = "412" \/ SearchCatches(exc)
                                THEN "done" ELSE "raised"
                     /\ UNCHANGED <<s_page, s_products, page_products, sleeps>>
                ELSE \E doc \in SearchDocuments :
                       LET found == parse_search_page_html(doc)
                           all == s_products \o found
                       IN  /\ page_products' = found
                           /\ IF found = <<>>
                              THEN /\ s_pc' = "done"
                                   /\ UNCHANGED <<s_page, s_products, sleeps>>
                              ELSE IF Len(all) >= s_max_products
                              THEN /\ s_products' = SubSeq(all, 1, s_max_products)
                                   /\ s_pc' = "done"
                                   /\ UNCHANGED <<s_page, sleeps>>
                              ELSE /\ s_products' = all
                                   /\ s_page' = s_page + 1
                                   /\ sleeps' = Append(sleeps, [page |-> s_page, wait |-> 1])
                                   /\ s_pc' = "loop"
    /\ UNCHANGED <<s_max_products, fetchAllVars, categoryVars, detailVars,
                   discoveryVars, walmartVars>>

\* the loop test fails: return pd.DataFrame(products) (lines 649-654)
SearchReturn ==
    /\ s_pc = "loop"
    /\ ~SearchLoopTest(s_products, s_max_products)
    /\ s_pc' = "done"
    /\ UNCHANGED <<s_max_products, s_page, s_products, page_products, fetchAllVars, historyVars, categoryVars, detailVars, discoveryVars,
                   walmartVars>>

InitSearch ==
    /\ FetchAllIdle
    /\ CategoryIdle
    /\ DetailIdle
    /\ DiscoveryIdle
    /\ WalmartIdle
    /\ requests = <<>>
    /\ sleeps = <<>>
    /\ s_pc = "loop"
    /\ s_max_products \in SearchMaxProducts
    /\ s_page = 1
    /\ s_products = <<>>
    /\ page_products = <<>>

NextSearch ==
    \/ SearchPage
    \/ SearchReturn

\* one call of fetch_products_by_search
SpecSearch == InitSearch /\ [][NextSearch]_vars

\* the loop goes on as long as it can
FairSpecSearch == SpecSearch /\ WF_vars(NextSearch)

\* C36: fetch_products_by_search(query, max_products=m) always terminates by
\* returning, after at most m page requests and with at most m products (none
\* and no request when m <= 0); the pages are requested in order; a page that
\* is blocked (412), raises a transport or HTTP error or yields no products is
\* the last one requested, and no page is requested once m products are held.
C36_SearchBudget ==
    /\ [](/\ s_pc # "raised"
          /\ Len(requests) <= Max(s_max_products, 0)
          /\ Len(s_products) <= Max(s_max_products, 0)
          /\ s_max_products <= 0 => requests = <<>>
          /\ \A i \in 1..Len(requests) :
                /\ requests[i].offset = i
                /\ requests[i].outcome # "ok" => (i = Len(requests) /\ s_pc = "done")
          /\ (requests # <<>> /\ Last(requests).outcome = "ok" /\ page_products = <<>>)
                => s_pc = "done"
          /\ (s_pc = "loop" /\ requests # <<>>) => Len(s_products) < s_max_products)
    /\ <>(s_pc = "done")

\* three pages of one product each were needed for max_products = 3
C36_Witness ==
    /\ s_pc = "done"
    /\ s_max_products = 3
    /\ Len(requests) = 3
    /\ \A i \in 1..3 : requests[i].outcome = "ok"
    /\ Len(s_products) = 3

\* C37: the list parse_search_page_html returns holds no two entries with the
\* same item_id, whichever of the three methods (product links, usItemId
\* occurrences, JSON objects in script tags) produced them.
C37_SearchItemIdsUnique ==
    \A i, j \in 1..Len(page_products) :
        page_products[i].item_id = page_products[j].item_id => i = j

=============================================================================
